---- MODULE Spec2Model ----
(***************************************************************************)
(* A model of the open-video-agent highlight pipeline.                     *)
(*                                                                         *)
(* The module holds ten state machines   over one set of variables; each   *)
(* has its own specification and leaves the other machines' variables at   *)
(* their initial values:                                                   *)
(*   SpecRetry  PlatformContentGenerator.generatePlatformContent           *)
(*   SpecAll    Agent.processAllVideos / Agent.processVideo                *)
(*   SpecMedia  HighlightsCutter.cutHighlights and                         *)
(*              FullVideoAssembler.assembleFullVideo, external process by  *)
(*              external process                                           *)
(*   SpecSteps  Agent.runStep over the directory contents, item by item    *)
(*   SpecAnalyze  Agent.runAnalyzeStep with ClaudeAnalyzer.analyzeSRT,       *)
(*              request by request                                         *)
(*   SpecSelect  HighlightsSelector.parseSelection and                     *)
(*              ApprovedHighlightsSelector.parseSelection with their       *)
(*              callers, on the characters of the typed answer             *)
(*   SpecSrt    HighlightsSelector.parseSRT on the lines of a caption file *)
(*              (lines separated by \n), with the head of selectHighlights *)
(*   SpecTime   HighlightsCutter.timeToSeconds and cutSingleHighlight, in  *)
(*              milliseconds                                               *)
(*   SpecDur    the durations FullVideoAssembler.assembleFullVideo probes, *)
(*              sums, reports and writes to the metadata file              *)
(*   SpecWrite  Transcriber.generateSRT followed by parseSRT               *)
(*                                                                         *)
(* Modelling assumptions, the same in every machine: a write to the local  *)
(* file system (mkdirSync, writeFileSync) succeeds, and JSON.stringify     *)
(* output is parseable; reads, parses, copies and external processes       *)
(* (ffmpeg, ffprobe, the speech-to-text and text-generation services) may  *)
(* fail, and their outcome is a nondeterministic input.                    *)
(***************************************************************************)
EXTENDS Integers, Sequences, FiniteSets, TLC

VARIABLES
    \* ---- generatePlatformContent
    rpc,          \* "idle" | "request" | "await" | "returned" | "thrown"
    attempt,      \* the loop variable of the retry loop
    requests,     \* number of anthropic.messages.create calls issued
    rlog,         \* what each completed request gave: an error or a response text
    lastError,    \* the variable lastError
    genResult,    \* the value returned, or None
    genThrown,    \* the error thrown, or None
    \* ---- processAllVideos
    apc,          \* "idle" | "video" | "returned" | "raised"
    videoFiles,   \* what VideoProcessor.getVideoFiles() returned
    vidx,         \* position of the for loop in videoFiles
    astage,       \* position of processVideo in its stages
    results,      \* the array results
    started,      \* the videos processVideo was called for, in call order
    thrown,       \* per video handled: the error processVideo threw, or None
    \* ---- cutHighlights and assembleFullVideo
    mpc,          \* where the running call is; "idle" between two calls
    inflight,     \* number of external processes (ffmpeg, ffprobe) running
    hl,           \* cutHighlights: highlights.highlights, the highlights to cut
    hk,           \* cutHighlights: position of the for loop in hl
    cutResults,   \* cutHighlights: the array results
    cutLog,       \* cutHighlights: how the transcode of each highlight ended
    metaWrites,   \* cutHighlights: writes of highlights_metadata.json so far
    metaFile,     \* cutHighlights: content of highlights_metadata.json, or None
    asm,          \* assembleFullVideo: its arguments and the files on disk
    asmQueue,     \* assembleFullVideo: external processes still to run
    asmLog,       \* assembleFullVideo: external processes started, in order
    asmOut,       \* assembleFullVideo: what it wrote and how it ended
    \* ---- Agent.runStep
    rl,           \* Agent.rl: a readline interface is attached
    fs,           \* the files of upload/, separated-audio/, ready-video/, additional/intro/
    step,         \* the step that is running, "idle" when none is
    queue,        \* the items the running step's for loop has still to handle
    introPath,    \* runAssembleFullStep: the local introPath is set
    last,         \* what the handling of the last item (or the last prompt) did
    stepOutcome,  \* how the last step ended: whether it raised, and the items it dropped
    \* ---- runAnalyzeStep with ClaudeAnalyzer.analyzeSRT
    anpc,         \* "idle" | "loop" | "await" | "returned"
    anQueue,      \* the .srt files the for loop has still to handle
    anRequests,   \* anthropic.messages.create calls issued for the current file
    anLog,        \* per file handled: the requests issued and how the handling ended
    \* ---- parseSelection, both variants, with their callers
    selpc,        \* "typed" | "set" | "order"
    selInput,     \* the answer typed at the selection question
    selMax,       \* segments.length, respectively metadata.clips.length
    selOut,       \* what the parser returned and what its callers did with it
    \* ---- parseSRT with the head of selectHighlights
    srtpc,        \* "idle" | "read"
    srtIn,        \* the caption file that was read, block by block
    srtOut,       \* the segments parsed and what selectHighlights did then
    \* ---- timeToSeconds and cutSingleHighlight
    tpc,          \* "idle" | "cut"
    tIn,          \* the highlight handed to cutSingleHighlight
    tOut,         \* the seconds computed, the transcode and the CutResult
    \* ---- the durations and the metadata of assembleFullVideo
    dpc,          \* "idle" | "rejected" | "returned"
    dIn,          \* the approval, the intro and what ffprobe reports
    dOut,         \* the probes, the encode, the metadata file and the result
    \* ---- generateSRT followed by parseSRT
    wpc,          \* "idle" | "written"
    wIn,          \* the segments the speech-to-text service returned
    wOut          \* the caption file written and the segments parsed from it

retryVars == <<rpc, attempt, requests, rlog, lastError, genResult, genThrown>>
allVars == <<apc, videoFiles, vidx, astage, results, started, thrown>>

mediaVars == <<mpc, inflight, hl, hk, cutResults, cutLog, metaWrites, metaFile,
               asm, asmQueue, asmLog, asmOut>>

stepVars == <<rl, fs, step, queue, introPath, last, stepOutcome>>

analyzeVars == <<anpc, anQueue, anRequests, anLog>>

selVars == <<selpc, selInput, selMax, selOut>>

srtVars == <<srtpc, srtIn, srtOut>>

timeVars == <<tpc, tIn, tOut>>

durVars == <<dpc, dIn, dOut>>

writeVars == <<wpc, wIn, wOut>>

pureVars == <<srtVars, timeVars, durVars, writeVars>>

vars == <<retryVars, allVars, mediaVars, stepVars, analyzeVars, selVars, pureVars>>

notRetry == <<allVars, mediaVars, stepVars, analyzeVars, selVars, pureVars>>
notAll == <<retryVars, mediaVars, stepVars, analyzeVars, selVars, pureVars>>
notMedia == <<retryVars, allVars, stepVars, analyzeVars, selVars, pureVars>>
notSteps == <<retryVars, allVars, mediaVars, analyzeVars, selVars, pureVars>>
notAnalyze == <<retryVars, allVars, mediaVars, stepVars, selVars, pureVars>>
notSel == <<retryVars, allVars, mediaVars, stepVars, analyzeVars, pureVars>>
notSrt == <<retryVars, allVars, mediaVars, stepVars, analyzeVars, selVars, timeVars, durVars, writeVars>>
notTime == <<retryVars, allVars, mediaVars, stepVars, analyzeVars, selVars, srtVars, durVars, writeVars>>
notDur == <<retryVars, allVars, mediaVars, stepVars, analyzeVars, selVars, srtVars, timeVars, writeVars>>
notWrite == <<retryVars, allVars, mediaVars, stepVars, analyzeVars, selVars, srtVars, timeVars, durVars>>

None == "none"

\* ------------------------------------------------------------------------
\* The state after construction, machine by machine
\* ------------------------------------------------------------------------

RetryInit ==
    /\ rpc = "idle"
    /\ attempt = 0
    /\ requests = 0
    /\ rlog = <<>>
    /\ lastError = None
    /\ genResult = None
    /\ genThrown = None

AllInit ==
    /\ apc = "idle"
    /\ videoFiles = <<>>
    /\ vidx = 0
    /\ astage = 0
    /\ results = <<>>
    /\ started = <<>>
    /\ thrown = <<>>

NoAssembly == [clips |-> <<>>, present |-> {}, intro |-> FALSE]
NothingAssembled == [mkdir |-> FALSE, metadata |-> FALSE, allFiles |-> <<>>, error |-> "none"]

MediaInit ==
    /\ mpc = "idle"
    /\ inflight = 0
    /\ hl = <<>>
    /\ hk = 0
    /\ cutResults = <<>>
    /\ cutLog = <<>>
    /\ metaWrites = 0
    /\ metaFile = "none"
    /\ asm = NoAssembly
    /\ asmQueue = <<>>
    /\ asmLog = <<>>
    /\ asmOut = NothingAssembled

\* The logical videos, in directory (readdir) order.
NameOrder == <<"a", "b">>
Names == {NameOrder[i] : i \in 1..Len(NameOrder)}

\* An item of a step's for loop: a file of a logical video, <<name, 0>>, or the
\* k-th cut folder ready-video/<name>_<timestamp>, <<name, k>>.
NoItem == <<"none", 0>>
IntroItem == <<"intro", 0>>

NoLast ==
    [step |-> "none", item |-> NoItem, asked |-> FALSE, answer |-> <<>>,
     ran |-> FALSE, ext |-> FALSE, wrote |-> FALSE, intro |-> FALSE, sel |-> "none"]

NotRaised == [raised |-> FALSE, dropped |-> <<>>]

\* After construction rl is null; the upload directory holds the videos and
\* nothing has been produced; an intro file may lie in additional/intro.
StepsInit ==
    /\ rl = FALSE
    /\ \E intro \in BOOLEAN :
        fs = [audio      |-> [n \in Names |-> FALSE],
              video      |-> [n \in Names |-> FALSE],
              srt        |-> [n \in Names |-> FALSE],
              analysis   |-> [n \in Names |-> FALSE],
              organized  |-> [n \in Names |-> FALSE],
              highlights |-> [n \in Names |-> FALSE],
              folders    |-> [n \in Names |-> <<>>],
              intro      |-> intro]
    /\ step = "idle"
    /\ queue = <<>>
    /\ introPath = FALSE
    /\ last = NoLast
    /\ stepOutcome = NotRaised

AnalyzeInit ==
    /\ anpc = "idle"
    /\ anQueue = <<>>
    /\ anRequests = 0
    /\ anLog = <<>>

\* No selection question was answered yet.
NoAnswer == [kind |-> "none", word |-> <<>>, tokens |-> <<>>]

NoSelection ==
    [parsed |-> FALSE, ids |-> <<>>, result |-> FALSE, wrote |-> FALSE,
     clips |-> <<>>, order |-> <<>>]

SelInit ==
    /\ selpc = "idle"
    /\ selInput = NoAnswer
    /\ selMax = 0
    /\ selOut = NoSelection

NoCaptions == [blocks |-> <<>>, gap |-> 0, lead |-> FALSE]

NothingParsed ==
    [segments |-> <<>>, asked |-> FALSE, wrote |-> FALSE, failed |-> FALSE,
     answer |-> <<>>, selectedIds |-> <<>>, highlights |-> <<>>, clips |-> <<>>]

SrtInit ==
    /\ srtpc = "idle"
    /\ srtIn = NoCaptions
    /\ srtOut = NothingParsed

NoTime == [h |-> 0, m |-> 0, s |-> 0, ms |-> 0]

NoHighlight == [startTime |-> NoTime, endTime |-> NoTime, sep |-> "."]

\* A number of seconds, kept in milliseconds; nan marks NaN.
Seconds(ms) == [nan |-> FALSE, ms |-> ms]

NothingCut ==
    [startSeconds |-> Seconds(0), endSeconds |-> Seconds(0), transcodes |-> 0,
     setStartTime |-> Seconds(0), setDuration |-> Seconds(0),
     resolved |-> FALSE, results |-> <<>>, clips |-> <<>>]

TimeInit ==
    /\ tpc = "idle"
    /\ tIn = NoHighlight
    /\ tOut = NothingCut

NoApproval == [clips |-> <<>>, intro |-> <<>>, original |-> 0]

Absent == <<>>

Zero == [nan |-> FALSE, ms |-> 0]

NothingReported ==
    [probes |-> <<>>, highlightsDuration |-> Zero, introDuration |-> Zero,
     originalDuration |-> Zero, encoded |-> FALSE, error |-> <<>>,
     metadata |-> Absent, result |-> Absent]

DurInit ==
    /\ dpc = "idle"
    /\ dIn = NoApproval
    /\ dOut = NothingReported

NothingWritten == [segments |-> <<>>, lines |-> <<>>, written |-> FALSE, parsed |-> <<>>]

WriteInit ==
    /\ wpc = "idle"
    /\ wIn = <<>>
    /\ wOut = NothingWritten

PureInit == SrtInit /\ TimeInit /\ DurInit /\ WriteInit

\* The machines that a specification leaves at rest.
OthersInit == AnalyzeInit /\ SelInit /\ PureInit

\* ------------------------------------------------------------------------
\* Sequence helpers
\* ------------------------------------------------------------------------

Range(s) == {s[i] : i \in 1..Len(s)}

\* ------------------------------------------------------------------------
\* PlatformContentGenerator (src/src/platformContentGenerator.ts)
\* ------------------------------------------------------------------------

MAX_RETRIES == 3

\* A response text is a sequence of tokens:
\*   "{" "}"  braces            "k"  well-formed member text ("title": "...")
\*   "t"      any other prose   "f"  a markdown fence (``` or ```json)
\*   "_"      white space
RespTokens == {"{", "}", "k", "t", "f", "_"}

\* cleanJsonResponse: the fences are removed, then the text is trimmed.
RECURSIVE TrimLeft(_)
TrimLeft(s) == IF s # <<>> /\ Head(s) = "_" THEN TrimLeft(Tail(s)) ELSE s

RECURSIVE TrimRight(_)
TrimRight(s) ==
    IF s # <<>> /\ s[Len(s)] = "_" THEN TrimRight(SubSeq(s, 1, Len(s) - 1)) ELSE s

cleanJsonResponse(text) ==
    LET NotFence(c) == c # "f"
    IN  TrimRight(TrimLeft(SelectSeq(text, NotFence)))

\* String.prototype.match(/\{[\s\S]*\}/): the leftmost "{" that has a "}" after
\* it, up to the LAST "}" of the text (the star is greedy); <<>> when none.
jsonMatch(cleaned) ==
    LET opens  == {i \in 1..Len(cleaned) : cleaned[i] = "{"}
        closes == {i \in 1..Len(cleaned) : cleaned[i] = "}"}
        ok     == {i \in opens : \E j \in closes : j > i}
        Min(S) == CHOOSE x \in S : \A y \in S : x <= y
        Max(S) == CHOOSE x \in S : \A y \in S : x >= y
    IN  IF ok = {} THEN <<>> ELSE SubSeq(cleaned, Min(ok), Max(closes))

\* Brace depth after each prefix of s.
RECURSIVE Depth(_, _)
Depth(s, n) ==
    IF n = 0 THEN 0
    ELSE Depth(s, n - 1) + (IF s[n] = "{" THEN 1 ELSE IF s[n] = "}" THEN -1 ELSE 0)

\* JSON.parse accepts exactly one object: the braces balance, the brace that
\* closes the first one is the last token, and there is no prose in it.
jsonParses(s) ==
    /\ Len(s) >= 2
    /\ s[1] = "{"
    /\ \A i \in 1..Len(s) : s[i] \in {"{", "}", "k", "_"}
    /\ \A i \in 1..(Len(s) - 1) : Depth(s, i) > 0
    /\ Depth(s, Len(s)) = 0

ErrNoJson == "Could not find JSON object in response"
ErrSyntax == "SyntaxError"

\* parseJsonResponse: [ok |-> TRUE, value |-> the object] or [ok |-> FALSE,
\* error |-> what is thrown].
parseJsonResponse(responseText) ==
    LET cleaned == cleanJsonResponse(responseText)
        m       == jsonMatch(cleaned)
    IN  IF m = <<>> THEN [ok |-> FALSE, error |-> ErrNoJson, value |-> <<>>]
        ELSE IF jsonParses(m) THEN [ok |-> TRUE, error |-> None, value |-> m]
        ELSE [ok |-> FALSE, error |-> ErrSyntax, value |-> <<>>]

\* What the text-generation service may answer to one request.
TransportErrors == {"E_timeout", "E_overloaded"}

ResponseTexts ==
    { <<"{", "k", "}">>,
      <<"f", "_", "{", "k", "}", "_", "f">>,
      <<"t", "{", "k", "{", "k", "}", "}">>,
      <<"t">>,
      <<>>,
      <<"{", "k">>,
      <<"{", "k", "}", "t", "{", "t", "}">> }

RequestOutcomes ==
    [kind : {"error"}, error : TransportErrors, text : {<<>>}]
        \cup [kind : {"response"}, error : {None}, text : ResponseTexts]

\* What one pass through the try block gives for a completed request.
AttemptResult(o) ==
    IF o.kind = "error" THEN [ok |-> FALSE, error |-> o.error, value |-> <<>>]
    ELSE parseJsonResponse(o.text)

\* Entry: lastError = null, attempt = 1.
GenStart ==
    /\ rpc = "idle"
    /\ rpc' = "request"
    /\ attempt' = 1
    /\ UNCHANGED <<requests, rlog, lastError, genResult, genThrown>>
    /\ UNCHANGED notRetry

\* An off-by-one loop bound: one attempt too many.
LoopContinuesOneMore(a) == a <= MAX_RETRIES + 1

\* The loop condition attempt <= MAX_RETRIES.
LoopContinues(a) == a <= MAX_RETRIES

\* await anthropic.messages.create(...): the request is issued.
GenRequest ==
    /\ rpc = "request"
    /\ LoopContinues(attempt)
    /\ rpc' = "await"
    /\ requests' = requests + 1
    /\ UNCHANGED <<attempt, rlog, lastError, genResult, genThrown>>
    /\ UNCHANGED notRetry

\* The error the function throws after the loop.
ThrownAfterLoop(err, log) == err

\* The request completes (or fails), the response is parsed; on success the
\* function returns, otherwise the catch block records the error and the loop
\* goes on with attempt + 1.
GenComplete ==
    /\ rpc = "await"
    /\ \E o \in RequestOutcomes :
        LET r == AttemptResult(o) IN
        /\ rlog' = Append(rlog, o)
        /\ IF r.ok
           THEN /\ rpc' = "returned"
                /\ genResult' = r.value
                /\ UNCHANGED <<attempt, lastError, genThrown>>
           ELSE /\ lastError' = r.error
                /\ attempt' = attempt + 1
                /\ rpc' = "request"
                /\ UNCHANGED <<genResult, genThrown>>
    /\ UNCHANGED requests
    /\ UNCHANGED notRetry

\* The loop is over: throw lastError.
GenThrow ==
    /\ rpc = "request"
    /\ ~LoopContinues(attempt)
    /\ rpc' = "thrown"
    /\ genThrown' = ThrownAfterLoop(lastError, rlog)
    /\ UNCHANGED <<attempt, requests, rlog, lastError, genResult>>
    /\ UNCHANGED notRetry

RetryNext == GenStart \/ GenRequest \/ GenComplete \/ GenThrow

RetryStart == RetryInit /\ AllInit /\ MediaInit /\ StepsInit /\ OthersInit

SpecRetry == RetryStart /\ [][RetryNext]_vars

\* The attempts logged so far that failed, by transport or by parse.
FailedAttempts == {i \in 1..Len(rlog) : ~AttemptResult(rlog[i]).ok}

\* C10: generatePlatformContent issues at most 3 requests; while it runs, it is
\* at attempt k+1 exactly when the k requests before all failed (by transport
\* or by parse), with nothing between a failure and the next request; it
\* returns the parsed value of the first request that completes and parses and
\* issues no request after it; it throws only after 3 failed requests, and
\* then the error of the third.
C10_BoundedRetry ==
    /\ requests <= 3
    /\ rpc \in {"idle", "request", "await", "returned", "thrown"}
    /\ rpc = "request" =>
          /\ attempt = Len(rlog) + 1 /\ requests = Len(rlog)
          /\ FailedAttempts = 1..Len(rlog)
          /\ Len(rlog) > 0 => lastError = AttemptResult(rlog[Len(rlog)]).error
    /\ rpc = "await" =>
          /\ attempt = Len(rlog) + 1 /\ requests = attempt
          /\ FailedAttempts = 1..Len(rlog)
    /\ rpc = "returned" =>
          /\ requests = Len(rlog)
          /\ FailedAttempts = 1..(Len(rlog) - 1)
          /\ genResult = parseJsonResponse(rlog[Len(rlog)].text).value
          /\ rlog[Len(rlog)].kind = "response"
          /\ genThrown = None
    /\ rpc = "thrown" =>
          /\ requests = 3 /\ Len(rlog) = 3
          /\ FailedAttempts = 1..3
          /\ genThrown = AttemptResult(rlog[3]).error
          /\ genResult = None

\* Three failed attempts of three different kinds: a transport error, a
\* response without an object, an object that does not parse; the last is thrown.
C10_Witness ==
    /\ rpc = "thrown"
    /\ rlog[1].kind = "error"
    /\ AttemptResult(rlog[2]).error = ErrNoJson
    /\ genThrown = ErrSyntax

\* ------------------------------------------------------------------------
\* Agent.processAllVideos and Agent.processVideo (src/src/fullVideoAssembler.ts)
\* ------------------------------------------------------------------------

\* Bound of the model: how many video files the upload directory holds.
MaxVideos == 2

UploadNames == {"a.mp4", "b.mov", "c.mkv"}

\* The listings getVideoFiles() can return: distinct names, in readdir order.
VideoListings ==
    UNION { {f \in [1..n -> UploadNames] : \A i, j \in 1..n : i # j => f[i] # f[j]}
            : n \in 0..MaxVideos }

\* The stages of processVideo, each of which may throw. saveAnalysis between
\* "analyze" and "organize" is a write and does not fail here.
Stages == <<"find", "extract", "copy", "transcribe", "readSRT", "analyze", "organize">>

\* The message of the error a stage throws.
StageError(stage) ==
    CASE stage = "find"       -> "Video file not found"
      [] stage = "extract"    -> "ffmpeg: audio extraction failed"
      [] stage = "copy"       -> "copyFileSync failed"
      [] stage = "transcribe" -> "transcription failed"
      [] stage = "readSRT"    -> "readFileSync failed"
      [] stage = "analyze"    -> "analysis failed"
      [] stage = "organize"   -> "platform content generation failed"

\* The entry the catch block of processAllVideos pushes.
FailureEntry(err) ==
    [videoPath |-> "", success |-> FALSE, error |-> err]

\* The value processVideo returns.
SuccessEntry(name) ==
    [videoPath |-> name, success |-> TRUE, error |-> None]

\* A catch block that logs and forgets to push the entry.
VideoFailedNoEntry(res, err) == res

\* The catch block of the for loop: results.push({..., success: false, error}).
VideoFailed(res, err) == Append(res, FailureEntry(err))

\* processAllVideos up to the for loop: the listing, which may throw (the outer
\* catch rethrows), and the early return on an empty listing.
ProcessAllVideos ==
    /\ apc = "idle"
    /\ \E listed \in BOOLEAN :
        IF ~listed
        THEN /\ apc' = "raised"
             /\ UNCHANGED <<videoFiles, vidx>>
        ELSE \E files \in VideoListings :
             /\ videoFiles' = files
             /\ vidx' = 1
             /\ apc' = IF Len(files) = 0 THEN "returned" ELSE "video"
    /\ UNCHANGED <<astage, results, started, thrown>>
    /\ UNCHANGED notAll

\* The for loop calls processVideo for the next video.
CallProcessVideo ==
    /\ apc = "video"
    /\ astage = 0
    /\ vidx <= Len(videoFiles)
    /\ astage' = 1
    /\ started' = Append(started, videoFiles[vidx])
    /\ UNCHANGED <<apc, videoFiles, vidx, results, thrown>>
    /\ UNCHANGED notAll

\* One stage of processVideo ends: it succeeds and the next stage starts (after
\* the last one processVideo returns and the entry is pushed), or it throws and
\* the catch block of the for loop pushes a failure entry. Either way the loop
\* goes on with the next video.
ProcessVideoStage ==
    /\ apc = "video"
    /\ astage \in 1..Len(Stages)
    /\ \E ok \in BOOLEAN :
        LET name == videoFiles[vidx]
            err  == StageError(Stages[astage])
        IN  IF ok /\ astage < Len(Stages)
            THEN /\ astage' = astage + 1
                 /\ UNCHANGED <<vidx, results, thrown>>
            ELSE /\ astage' = 0
                 /\ vidx' = vidx + 1
                 /\ results' = IF ok THEN Append(results, SuccessEntry(name))
                               ELSE VideoFailed(results, err)
                 /\ thrown' = Append(thrown, IF ok THEN None ELSE err)
    /\ UNCHANGED <<apc, videoFiles, started>>
    /\ UNCHANGED notAll

\* After the loop: printSummary and return results.
AllReturn ==
    /\ apc = "video"
    /\ astage = 0
    /\ vidx > Len(videoFiles)
    /\ apc' = "returned"
    /\ UNCHANGED <<videoFiles, vidx, astage, results, started, thrown>>
    /\ UNCHANGED notAll

AllNext == ProcessAllVideos \/ CallProcessVideo \/ ProcessVideoStage \/ AllReturn

AllStart == AllInit /\ RetryInit /\ MediaInit /\ StepsInit /\ OthersInit

SpecAll == AllStart /\ [][AllNext]_vars

\* C9: when processAllVideos has listed the videos it does not raise; when it
\* returns, processVideo was called for every video of the listing, in order,
\* whatever was thrown for the videos before, and results has one entry per
\* video, in listing order: a success entry for a video that threw nothing and
\* an entry with success = false and the message of the error for one that threw.
C9_PerVideoIsolation ==
    /\ apc = "raised" => videoFiles = <<>> /\ started = <<>>
    /\ apc = "returned" =>
          /\ started = videoFiles
          /\ Len(results) = Len(videoFiles)
          /\ Len(thrown) = Len(videoFiles)
          /\ \A i \in 1..Len(videoFiles) :
                IF thrown[i] = None
                THEN results[i] = SuccessEntry(videoFiles[i])
                ELSE /\ results[i].success = FALSE
                     /\ results[i].error = thrown[i]

\* Two videos, the first failed in the text-generation stage, the second was
\* still processed, and the call returned.
C9_Witness ==
    /\ apc = "returned"
    /\ Len(videoFiles) = 2
    /\ thrown[1] = StageError("organize")
    /\ thrown[2] = None
    /\ results[2].success

\* ------------------------------------------------------------------------
\* HighlightsCutter.cutHighlights (src/src/highlightsCutter.ts)
\* ------------------------------------------------------------------------

\* Bounds of the model: the length of a highlight set, which is also the
\* largest highlight id, and the number of approved clips of an assembly.
MaxHighlights == 3
MaxClips == 2

\* The highlight sets cutHighlights may be handed: what a _highlights.json file
\* holds. A highlight is named by its id; ids may repeat (parseSRT takes them
\* from the index lines of the caption file).
HighlightSets == UNION {[1..n -> 1..MaxHighlights] : n \in 0..MaxHighlights}

\* How a transcode ends: the 'end' event, or the 'error' event (encoder error,
\* unreadable source, an exception in the promise executor).
CutOutcomes == {"end", "error"}

\* The CutResult of a highlight: the output file is <videoName>_highlight_<id>.mp4.
CutResultOf(id) == [highlightId |-> id, outputPath |-> <<"highlight", id>>]

\* The body of the for loop after the await: results.push(result) when the
\* promise resolved, the catch block (which only logs) when it rejected.
ResultsAfterCut(res, id, outcome) ==
    IF outcome = "end" THEN Append(res, CutResultOf(id)) ELSE res

\* A loop without the try/catch: a failed cut rejects the whole call.
PcAfterCutRethrown(outcome) == IF outcome = "end" THEN "cut_loop" ELSE "cut_raised"

\* Where cutHighlights goes on after a transcode: the rejection is caught
\* inside the loop body, so in both cases at the loop head.
PcAfterCut(outcome) == "cut_loop"

\* A metadata count taken from the highlights asked for.
MetadataOfRequested(res, highlights) ==
    [totalHighlights |-> Len(highlights),
     clips |-> [i \in 1..Len(res) |-> [id |-> res[i].highlightId, file |-> res[i].outputPath]]]

\* saveMetadata: the object written to highlights_metadata.json.
MetadataOf(res, highlights) ==
    [totalHighlights |-> Len(res),
     clips |-> [i \in 1..Len(res) |-> [id |-> res[i].highlightId, file |-> res[i].outputPath]]]

\* A loop that starts the next transcode without awaiting the one before.
MayLaunchCutUnawaited(pcv) == pcv \in {"cut_loop", "cut_wait"}

\* The for loop awaits cutSingleHighlight: the next transcode is started from
\* the loop head only.
MayLaunchCut(pcv) == pcv = "cut_loop"

\* cutHighlights is called: results = [], the highlights directory is made.
CutBegin ==
    /\ mpc = "idle"
    /\ \E hs \in HighlightSets : hl' = hs
    /\ hk' = 1
    /\ cutResults' = <<>>
    /\ cutLog' = <<>>
    /\ metaWrites' = 0
    /\ metaFile' = None
    /\ mpc' = "cut_loop"
    /\ UNCHANGED <<inflight, asm, asmQueue, asmLog, asmOut>>
    /\ UNCHANGED notMedia

\* cutSingleHighlight starts ffmpeg for the next highlight.
CutLaunch ==
    /\ MayLaunchCut(mpc)
    /\ hk <= Len(hl)
    /\ inflight' = inflight + 1
    /\ mpc' = "cut_wait"
    /\ UNCHANGED <<hl, hk, cutResults, cutLog, metaWrites, metaFile, asm, asmQueue, asmLog, asmOut>>
    /\ UNCHANGED notMedia

\* The transcode ends or fails; the loop goes on with the next highlight.
CutSettle ==
    /\ mpc = "cut_wait"
    /\ \E outcome \in CutOutcomes :
        /\ cutResults' = ResultsAfterCut(cutResults, hl[hk], outcome)
        /\ cutLog' = Append(cutLog, outcome)
        /\ mpc' = PcAfterCut(outcome)
    /\ inflight' = inflight - 1
    /\ hk' = hk + 1
    /\ UNCHANGED <<hl, metaWrites, metaFile, asm, asmQueue, asmLog, asmOut>>
    /\ UNCHANGED notMedia

\* After the loop: saveMetadata, return results.
CutReturn ==
    /\ mpc = "cut_loop"
    /\ hk > Len(hl)
    /\ metaFile' = MetadataOf(cutResults, hl)
    /\ metaWrites' = metaWrites + 1
    /\ mpc' = "cut_returned"
    /\ UNCHANGED <<inflight, hl, hk, cutResults, cutLog, asm, asmQueue, asmLog, asmOut>>
    /\ UNCHANGED notMedia

\* ------------------------------------------------------------------------
\* FullVideoAssembler.assembleFullVideo (src/src/fullVideoAssembler.ts)
\* ------------------------------------------------------------------------

\* The approved clips handed to an assembly, by clip id (repeats allowed).
ApprovedClipLists == UNION {[1..n -> 1..MaxClips] : n \in 1..MaxClips}

\* The arguments of a call and the clip files present in the highlights folder.
Assemblies ==
    [clips : ApprovedClipLists, present : SUBSET (1..MaxClips), intro : BOOLEAN]

\* A variant that never finds a clip file missing.
NothingMissing(a) == 0

\* The first clip of the approval, in approval order, whose file is missing; 0
\* when every file is there.
FirstMissing(a) ==
    LET miss == {i \in 1..Len(a.clips) : a.clips[i] \notin a.present}
    IN  IF miss = {} THEN 0 ELSE CHOOSE i \in miss : \A j \in miss : i <= j

\* A list with the intro in front.
AllFilesIntroFirst(a) ==
    (IF a.intro THEN << <<"intro", 0>> >> ELSE <<>>)
        \o [i \in 1..Len(a.clips) |-> <<"clip", a.clips[i]>>]
        \o << <<"original", 0>> >>

\* allFiles: the clip files, then the intro if one is given, then the original.
AllFiles(a) ==
    [i \in 1..Len(a.clips) |-> <<"clip", a.clips[i]>>]
        \o (IF a.intro THEN << <<"intro", 0>> >> ELSE <<>>)
        \o << <<"original", 0>> >>

\* The external processes of a call, in program order. The highlights duration
\* is computed from the clips' duration strings and starts no process.
AssemblyProcesses(a) ==
    (IF a.intro THEN <<"probeIntro">> ELSE <<>>) \o <<"probeOriginal", "concat">>

\* Each probe and the concat are awaited before the next is started.
MayLaunchAsm(pcv) == pcv = "asm_next"

\* assembleFullVideo is called: the clip files are verified (a missing one
\* throws), the output directory is made, the file list is built.
AsmBegin ==
    /\ mpc = "idle"
    /\ \E a \in Assemblies :
        /\ asm' = a
        /\ asmLog' = <<>>
        /\ IF FirstMissing(a) # 0
           THEN /\ mpc' = "asm_rejected"
                /\ asmOut' = [NothingAssembled EXCEPT
                                 !.error = <<"Brak pliku klipu", a.clips[FirstMissing(a)]>>]
                /\ asmQueue' = <<>>
           ELSE /\ mpc' = "asm_next"
                /\ asmOut' = [NothingAssembled EXCEPT !.mkdir = TRUE, !.allFiles = AllFiles(a)]
                /\ asmQueue' = AssemblyProcesses(a)
    /\ UNCHANGED <<inflight, hl, hk, cutResults, cutLog, metaWrites, metaFile>>
    /\ UNCHANGED notMedia

\* The next probe, or the concat encode, is started.
AsmLaunch ==
    /\ MayLaunchAsm(mpc)
    /\ asmQueue # <<>>
    /\ inflight' = inflight + 1
    /\ asmLog' = Append(asmLog, Head(asmQueue))
    /\ mpc' = "asm_wait"
    /\ UNCHANGED <<hl, hk, cutResults, cutLog, metaWrites, metaFile, asm, asmQueue, asmOut>>
    /\ UNCHANGED notMedia

\* The process ends: on an error the call rejects with it; after the concat
\* the metadata is saved and the result returned.
AsmSettle ==
    /\ mpc = "asm_wait"
    /\ inflight' = inflight - 1
    /\ asmQueue' = Tail(asmQueue)
    /\ \E ok \in BOOLEAN :
        IF ~ok
        THEN /\ mpc' = "asm_rejected"
             /\ asmOut' = [asmOut EXCEPT !.error = <<Head(asmQueue), "failed">>]
        ELSE IF Tail(asmQueue) = <<>>
        THEN /\ mpc' = "asm_returned"
             /\ asmOut' = [asmOut EXCEPT !.metadata = TRUE]
        ELSE /\ mpc' = "asm_next"
             /\ UNCHANGED asmOut
    /\ UNCHANGED <<hl, hk, cutResults, cutLog, metaWrites, metaFile, asm, asmLog>>
    /\ UNCHANGED notMedia

\* The caller (the for loop of a step, the menu loop) goes on to its next
\* call; the locals of the call that ended are gone.
NextCall ==
    /\ mpc \in {"cut_returned", "cut_raised", "asm_returned", "asm_rejected"}
    /\ mpc' = "idle"
    /\ hl' = <<>> /\ hk' = 0 /\ cutResults' = <<>> /\ cutLog' = <<>>
    /\ metaWrites' = 0 /\ metaFile' = None
    /\ asm' = NoAssembly /\ asmQueue' = <<>> /\ asmLog' = <<>>
    /\ asmOut' = NothingAssembled
    /\ UNCHANGED inflight
    /\ UNCHANGED notMedia

MediaNext ==
    CutBegin \/ CutLaunch \/ CutSettle \/ CutReturn
        \/ AsmBegin \/ AsmLaunch \/ AsmSettle \/ NextCall

MediaStart == MediaInit /\ RetryInit /\ AllInit /\ StepsInit /\ OthersInit

SpecMedia == MediaStart /\ [][MediaNext]_vars

\* The ids of the highlights whose transcode ended with 'end', in the order of
\* the highlight set.
RECURSIVE CutSucceeded(_, _)
CutSucceeded(highlights, log) ==
    IF log = <<>> \/ highlights = <<>> THEN <<>>
    ELSE (IF Head(log) = "end" THEN <<Head(highlights)>> ELSE <<>>)
             \o CutSucceeded(Tail(highlights), Tail(log))

\* C5: cutHighlights never raises because a cut failed; a failed cut does not
\* stop the loop (the transcodes settled so far are those of all highlights
\* before the loop position), and when the call returns every highlight has
\* been tried and the returned list holds exactly the highlights whose cut
\* succeeded, in the order of the highlight set.
C5_PartialBatch ==
    /\ mpc # "cut_raised"
    /\ mpc \in {"cut_loop", "cut_wait"} => Len(cutLog) = hk - 1
    /\ mpc = "cut_returned" =>
          /\ Len(cutLog) = Len(hl)
          /\ [i \in 1..Len(cutResults) |-> cutResults[i].highlightId]
                = CutSucceeded(hl, cutLog)

\* The first of three cuts failed, the two after it were made and are returned.
C5_Witness ==
    /\ mpc = "cut_returned"
    /\ cutLog = <<"error", "end", "end">>
    /\ Len(cutResults) = 2

\* C6: highlights_metadata.json is written exactly once per batch, when every
\* cut has settled and none is running; its clip list is the list of the
\* successful cuts (one entry each, none for a failed cut), totalHighlights is
\* the length of that list, and every clip id is the id of a highlight of the
\* input set.
C6_MetadataOnce ==
    /\ metaWrites <= 1
    /\ (metaWrites = 1) <=> (mpc = "cut_returned")
    /\ metaWrites = 0 => metaFile = None
    /\ metaWrites = 1 =>
          /\ Len(cutLog) = Len(hl) /\ inflight = 0
          /\ [i \in 1..Len(metaFile.clips) |-> metaFile.clips[i].id]
                = CutSucceeded(hl, cutLog)
          /\ metaFile.totalHighlights = Len(metaFile.clips)
          /\ \A i \in 1..Len(metaFile.clips) : metaFile.clips[i].id \in Range(hl)

\* A batch of three in which only the second cut succeeded: one clip is listed.
C6_Witness ==
    /\ metaWrites = 1
    /\ cutLog = <<"error", "end", "error">>
    /\ metaFile.totalHighlights = 1

\* C7: at most one external process runs at any time; one runs exactly while
\* a call waits for it; a transcode is started only when the transcodes of all
\* highlights before it have settled, and a probe or the concat only when the
\* processes of the assembly before it have settled.
C7_OneInFlight ==
    /\ inflight \in {0, 1}
    /\ (inflight = 1) <=> (mpc \in {"cut_wait", "asm_wait"})
    /\ mpc = "cut_wait" => Len(cutLog) = hk - 1
    /\ mpc = "asm_wait" =>
          Len(asmLog) + Len(asmQueue) = Len(AssemblyProcesses(asm)) + 1

\* The second transcode of a batch runs after the first one failed.
C7_Witness ==
    /\ mpc = "cut_wait"
    /\ hk = 2
    /\ cutLog = <<"error">>
    /\ inflight = 1

\* ------------------------------------------------------------------------
\* Agent.runStep (src/src/fullVideoAssembler.ts): the steps over the
\* directory contents, one action per step entry and one per loop iteration
\* ------------------------------------------------------------------------

\* Bound of the model: cut folders in ready-video (every run of the cut step
\* makes a new <name>_<timestamp> folder for each video it cuts).
MaxFolders == 1

\* An answer typed at a prompt is a sequence of characters; "_" is a blank.
RawAnswers ==
    { <<>>, <<"n">>, <<"y">>, <<"t">>, <<"T">>, <<"_", "t", "_">>,
      <<"t", "a", "k">>, <<"T", "A", "K">>, <<"T", "a", "k", "_">>,
      <<"t", "a">> }

\* String.prototype.toLowerCase.
LowerChar(c) ==
    CASE c = "T" -> "t" [] c = "A" -> "a" [] c = "K" -> "k" [] c = "L" -> "l"
      [] c = "S" -> "s" [] c = "I" -> "i" [] c = "P" -> "p" [] c = "X" -> "x"
      [] OTHER -> c

toLowerCase(str) == [i \in 1..Len(str) |-> LowerChar(str[i])]

\* String.prototype.trim.
trim(str) == TrimRight(TrimLeft(str))

\* What the operator can type at rl.question; nothing is typed without readline.
Typed(hasRl) == IF hasRl THEN RawAnswers ELSE {<<>>}

\* promptUser: resolves with the trimmed answer, with '' without readline.
promptUser(hasRl, typed) == IF hasRl THEN trim(typed) ELSE <<>>

\* A comparison that keeps the letter case.
IsYesCaseSensitive(answer) == answer \in {<<"t">>, <<"t", "a", "k">>}

\* answer.toLowerCase() === 't' || answer.toLowerCase() === 'tak'.
IsYes(answer) == toLowerCase(answer) \in {<<"t">>, <<"t", "a", "k">>}

\* getFilesWithExtension and the directory listings: the logical videos that
\* have a file of one kind, as loop items in directory order.
ItemsWith(has) ==
    LET all == [i \in 1..Len(NameOrder) |-> <<NameOrder[i], 0>>]
        Has(it) == has[it[1]]
    IN  SelectSeq(all, Has)

\* findHighlightFolders / findApprovedHighlights: the cut folders that satisfy
\* Want, in directory order (by name, then by timestamp).
RECURSIVE FolderItemsFrom(_, _, _)
FolderItemsFrom(f, i, onlyApproved) ==
    IF i > Len(NameOrder) THEN <<>>
    ELSE LET n    == NameOrder[i]
             mine == [k \in 1..Len(f.folders[n]) |-> <<n, k>>]
             Ok(it) == onlyApproved => f.folders[n][it[2]].approved
         IN  SelectSeq(mine, Ok) \o FolderItemsFrom(f, i + 1, onlyApproved)

\* A step is entered: its loop items are listed; with none it returns.
Enter(s, items) ==
    /\ step' = IF items = <<>> THEN "idle" ELSE s
    /\ queue' = items
    /\ last' = NoLast
    /\ stepOutcome' = NotRaised

\* The loop goes on with the next item, or the step returns.
Advance ==
    /\ queue' = Tail(queue)
    /\ step' = IF Tail(queue) = <<>> THEN "idle" ELSE step
    /\ stepOutcome' = stepOutcome

\* An exception leaves the for loop: runStep rejects, the items not yet
\* handled are never handled.
Raise ==
    /\ queue' = <<>>
    /\ step' = "idle"
    /\ stepOutcome' = [raised |-> TRUE, dropped |-> Tail(queue)]

Did(asked, answer, ran, ext, wrote) ==
    [step |-> step, item |-> Head(queue), asked |-> asked, answer |-> answer,
     ran |-> ran, ext |-> ext, wrote |-> wrote, intro |-> FALSE, sel |-> "none"]

Skipped == Did(FALSE, <<>>, FALSE, FALSE, FALSE)

\* setReadlineInterface.
SetReadlineInterface ==
    /\ step = "idle"
    /\ ~rl
    /\ rl' = TRUE
    /\ UNCHANGED <<fs, step, queue, introPath, last, stepOutcome>>
    /\ UNCHANGED notSteps

\* ---- extract

RunExtractStep ==
    /\ step = "idle"
    /\ Enter("extract", ItemsWith([n \in Names |-> TRUE]))
    /\ UNCHANGED <<rl, fs, introPath>>
    /\ UNCHANGED notSteps

\* VideoProcessor.processVideo in a try/catch: ffmpeg writes the audio, then
\* the video is copied; either may fail.
ExtractItem ==
    /\ step = "extract"
    /\ LET n == Head(queue)[1] IN
       \E outcome \in {"ok", "ffmpegError", "copyError"} :
        /\ fs' = [fs EXCEPT !.audio[n] = @ \/ outcome # "ffmpegError",
                            !.video[n] = @ \/ outcome = "ok"]
        /\ last' = Did(FALSE, <<>>, TRUE, TRUE, outcome # "ffmpegError")
    /\ Advance
    /\ UNCHANGED <<rl, introPath>>
    /\ UNCHANGED notSteps

\* ---- transcribe

RunTranscribeStep ==
    /\ step = "idle"
    /\ Enter("transcribe", ItemsWith(fs.audio))
    /\ UNCHANGED <<rl, fs, introPath>>
    /\ UNCHANGED notSteps

\* A loop without the existence check.
TranscriptExistsUnchecked(f, n) == FALSE

\* fs.existsSync(srtPath).
TranscriptExists(f, n) == f.srt[n]

TranscribeItem ==
    /\ step = "transcribe"
    /\ LET n == Head(queue)[1] IN
       IF TranscriptExists(fs, n)
       THEN /\ last' = Skipped
            /\ UNCHANGED fs
       ELSE \E ok \in BOOLEAN :
            /\ fs' = [fs EXCEPT !.srt[n] = ok]
            /\ last' = Did(FALSE, <<>>, TRUE, TRUE, ok)
    /\ Advance
    /\ UNCHANGED <<rl, introPath>>
    /\ UNCHANGED notSteps

\* ---- analyze

RunAnalyzeStep ==
    /\ step = "idle"
    /\ Enter("analyze", ItemsWith(fs.srt))
    /\ UNCHANGED <<rl, fs, introPath>>
    /\ UNCHANGED notSteps

\* A loop without the existence check.
AnalysisExistsUnchecked(f, n) == FALSE

\* fs.existsSync(analysisPath).
AnalysisExists(f, n) == f.analysis[n]

\* readSRT, analyzeSRT, saveAnalysis in a try/catch.
AnalyzeItem ==
    /\ step = "analyze"
    /\ LET n == Head(queue)[1] IN
       IF AnalysisExists(fs, n)
       THEN /\ last' = Skipped
            /\ UNCHANGED fs
       ELSE \E outcome \in {"readError", "failed", "ok"} :
            /\ fs' = [fs EXCEPT !.analysis[n] = (outcome = "ok")]
            /\ last' = Did(FALSE, <<>>, TRUE, outcome # "readError", outcome = "ok")
    /\ Advance
    /\ UNCHANGED <<rl, introPath>>
    /\ UNCHANGED notSteps

\* ---- organize

RunOrganizeStep ==
    /\ step = "idle"
    /\ LET videos == ItemsWith(fs.video)
           srts   == ItemsWith(fs.srt)
       IN  Enter("organize", IF videos = <<>> \/ srts = <<>> THEN <<>> ELSE videos)
    /\ UNCHANGED <<rl, fs, introPath>>
    /\ UNCHANGED notSteps

\* A loop that asks for the audio alone.
HasOrganizeInputsAudioOnly(f, n) == f.audio[n]

\* matchingAudio && matchingSrt for a listed video.
HasOrganizeInputs(f, n) == f.audio[n] /\ f.srt[n]

\* organizeProjectFiles in a try/catch: a new project folder, the copies, then
\* the generation of the platform texts and their files.
OrganizeItem ==
    /\ step = "organize"
    /\ LET n == Head(queue)[1] IN
       IF ~HasOrganizeInputs(fs, n)
       THEN /\ last' = Skipped
            /\ UNCHANGED fs
       ELSE \E outcome \in {"copyError", "genError", "ok"} :
            /\ fs' = [fs EXCEPT !.organized[n] = @ \/ outcome = "ok"]
            /\ last' = Did(FALSE, <<>>, TRUE, outcome # "copyError", outcome # "copyError")
    /\ Advance
    /\ UNCHANGED <<rl, introPath>>
    /\ UNCHANGED notSteps

\* ---- highlights

RunHighlightsStep ==
    /\ step = "idle"
    /\ Enter("highlights", IF rl THEN ItemsWith(fs.srt) ELSE <<>>)
    /\ UNCHANGED <<rl, fs, introPath>>
    /\ UNCHANGED notSteps

\* How selectHighlights / selectApprovedHighlights can end: an exception, no
\* caption segment (null before any question), the answer 'skip', an empty
\* selection, a selection.
SelectOutcomes == {"throws", "noSegments", "skip", "empty", "selected"}

\* A save of whatever did not throw.
SavesUnlessThrown(sel) == sel # "throws"

\* if (result) save...(result, path): only a selection is saved.
SavesResult(sel) == sel = "selected"

\* The overwrite question when the highlights file exists, then
\* selectHighlights and saveHighlights in a try/catch.
HighlightsItem ==
    /\ step = "highlights"
    /\ LET n      == Head(queue)[1]
           exists == fs.highlights[n]
       IN  \E raw \in (IF exists THEN Typed(rl) ELSE {<<>>}) :
             IF exists /\ ~IsYes(promptUser(rl, raw))
             THEN /\ last' = Did(TRUE, raw, FALSE, FALSE, FALSE)
                  /\ UNCHANGED fs
             ELSE \E sel \in SelectOutcomes :
                  /\ fs' = [fs EXCEPT !.highlights[n] = @ \/ SavesResult(sel)]
                  /\ last' = [Did(exists, raw, TRUE, FALSE, SavesResult(sel))
                                 EXCEPT !.sel = IF exists THEN sel ELSE "none"]
    /\ Advance
    /\ UNCHANGED <<rl, introPath>>
    /\ UNCHANGED notSteps

\* ---- cut-highlights

RunCutHighlightsStep ==
    /\ step = "idle"
    /\ Len(FolderItemsFrom(fs, 1, FALSE))
         + Cardinality({n \in Names : fs.highlights[n] /\ fs.video[n]}) <= MaxFolders
    /\ LET highlightsJson == ItemsWith(fs.highlights)
           videos      == ItemsWith(fs.video)
       IN  Enter("cut-highlights", IF videos = <<>> THEN <<>> ELSE highlightsJson)
    /\ UNCHANGED <<rl, fs, introPath>>
    /\ UNCHANGED notSteps

\* A search that finds a video for every highlights file.
HasMatchingVideoAlways(f, n) == TRUE

\* videoFiles.find(videoBaseName === highlights.videoName)
HasMatchingVideo(f, n) == f.video[n]

\* loadHighlights (outside the try: a read or parse error leaves the loop),
\* the search for the video, then cutHighlights in a try/catch. cutHighlights
\* makes a new folder and writes its metadata whatever the cuts did.
CutItem ==
    /\ step = "cut-highlights"
    /\ LET n == Head(queue)[1] IN
       \E loaded \in BOOLEAN :
         IF ~loaded
         THEN /\ last' = Skipped
              /\ UNCHANGED fs
              /\ Raise
         ELSE /\ Advance
              /\ IF ~HasMatchingVideo(fs, n)
                 THEN /\ last' = Skipped
                      /\ UNCHANGED fs
                 ELSE /\ fs' = [fs EXCEPT !.folders[n] =
                                  Append(@, [approved |-> FALSE, complete |-> FALSE])]
                      /\ last' = Did(FALSE, <<>>, TRUE, TRUE, TRUE)
    /\ UNCHANGED <<rl, introPath>>
    /\ UNCHANGED notSteps

\* ---- approve-highlights

RunApproveHighlightsStep ==
    /\ step = "idle"
    /\ Enter("approve-highlights", IF rl THEN FolderItemsFrom(fs, 1, FALSE) ELSE <<>>)
    /\ UNCHANGED <<rl, fs, introPath>>
    /\ UNCHANGED notSteps

\* loadMetadata (outside the try), the overwrite question when the approval
\* exists, then selectApprovedHighlights and saveApprovedHighlights in a
\* try/catch.
ApproveItem ==
    /\ step = "approve-highlights"
    /\ LET n      == Head(queue)[1]
           k      == Head(queue)[2]
           folder == fs.folders[n][k]
           exists == folder.approved
       IN  \E loaded \in BOOLEAN :
             IF ~loaded
             THEN /\ last' = Skipped
                  /\ UNCHANGED fs
                  /\ Raise
             ELSE /\ Advance
                  /\ \E raw \in (IF exists THEN Typed(rl) ELSE {<<>>}) :
                       IF exists /\ ~IsYes(promptUser(rl, raw))
                       THEN /\ last' = Did(TRUE, raw, FALSE, FALSE, FALSE)
                            /\ UNCHANGED fs
                       ELSE \E sel \in SelectOutcomes \ {"noSegments"} :
                            /\ fs' = [fs EXCEPT !.folders[n][k].approved = @ \/ SavesResult(sel)]
                            /\ last' = [Did(exists, raw, TRUE, FALSE, SavesResult(sel))
                                           EXCEPT !.sel = IF exists THEN sel ELSE "none"]
    /\ UNCHANGED <<rl, introPath>>
    /\ UNCHANGED notSteps

\* ---- assemble-full

\* findApprovedHighlights parses every approval before the loop (a parse error
\* leaves the step); then the intro question, asked when an intro file is found.
RunAssembleFullStep ==
    /\ step = "idle"
    /\ LET approvedItems == FolderItemsFrom(fs, 1, TRUE) IN
       \E parsed \in BOOLEAN :
         IF approvedItems # <<>> /\ ~parsed
         THEN /\ step' = "idle"
              /\ queue' = <<>>
              /\ last' = NoLast
              /\ stepOutcome' = [raised |-> TRUE, dropped |-> approvedItems]
              /\ introPath' = FALSE
         ELSE IF approvedItems = <<>> \/ ~fs.intro
         THEN /\ Enter("assemble-full", approvedItems)
              /\ introPath' = FALSE
         ELSE \E raw \in Typed(rl) :
              /\ step' = "assemble-full"
              /\ queue' = approvedItems
              /\ stepOutcome' = NotRaised
              /\ introPath' = IsYes(promptUser(rl, raw))
              /\ last' = [step |-> "assemble-full", item |-> IntroItem, asked |-> TRUE,
                          answer |-> raw, ran |-> FALSE, ext |-> FALSE,
                          wrote |-> FALSE, intro |-> IsYes(promptUser(rl, raw)),
                          sel |-> "none"]
    /\ UNCHANGED <<rl, fs>>
    /\ UNCHANGED notSteps

\* findOriginalVideo: a video of that name in separated-audio.
findOriginalVideo(f, n) == f.video[n]

\* findOriginalVideo, then assembleFullVideo in a try/catch.
AssembleItem ==
    /\ step = "assemble-full"
    /\ LET n == Head(queue)[1]
           k == Head(queue)[2]
       IN  IF ~findOriginalVideo(fs, n)
           THEN /\ last' = Skipped
                /\ UNCHANGED fs
           ELSE \E outcome \in {"missingClip", "probeError", "concatError", "ok"} :
                /\ fs' = [fs EXCEPT !.folders[n][k].complete = @ \/ outcome = "ok"]
                /\ last' = [Did(FALSE, <<>>, TRUE, outcome # "missingClip", outcome = "ok")
                               EXCEPT !.intro = introPath]
    /\ Advance
    /\ introPath' = IF Tail(queue) = <<>> THEN FALSE ELSE introPath
    /\ UNCHANGED rl
    /\ UNCHANGED notSteps

StepsNext ==
    \/ SetReadlineInterface
    \/ RunExtractStep \/ ExtractItem
    \/ RunTranscribeStep \/ TranscribeItem
    \/ RunAnalyzeStep \/ AnalyzeItem
    \/ RunOrganizeStep \/ OrganizeItem
    \/ RunHighlightsStep \/ HighlightsItem
    \/ RunCutHighlightsStep \/ CutItem
    \/ RunApproveHighlightsStep \/ ApproveItem
    \/ RunAssembleFullStep \/ AssembleItem

StepsStart == StepsInit /\ RetryInit /\ AllInit /\ MediaInit /\ OthersInit

SpecSteps == StepsStart /\ [][StepsNext]_vars

\* ---- properties of the steps

\* The item at the head of the queue is being handled by this transition.
Handling(s) == step = s /\ queue # <<>>

\* The output of a step for an item, in the directories before the transition.
OutputExists(s, it) ==
    CASE s = "extract"            -> fs.audio[it[1]]
      [] s = "transcribe"         -> fs.srt[it[1]]
      [] s = "analyze"            -> fs.analysis[it[1]]
      [] s = "organize"           -> fs.organized[it[1]]
      [] s = "highlights"         -> fs.highlights[it[1]]
      [] s = "cut-highlights"     -> fs.folders[it[1]] # <<>>
      [] s = "approve-highlights" -> fs.folders[it[1]][it[2]].approved
      [] s = "assemble-full"      -> fs.folders[it[1]][it[2]].complete
      [] OTHER                    -> FALSE

AllSteps ==
    {"extract", "transcribe", "analyze", "organize", "highlights",
     "cut-highlights", "approve-highlights", "assemble-full"}

\* The typed answers whose trimmed text is 't' or 'tak' in some letter case.
AffirmativeAnswers ==
    { <<"t">>, <<"T">>, <<"_", "t", "_">>, <<"t", "a", "k">>, <<"T", "A", "K">>,
      <<"T", "a", "k", "_">> }

\* Overwrite consent was given in the transition.
ConsentGiven == last'.asked /\ last'.answer \in AffirmativeAnswers

\* No file written and no external process invoked for the item.
NoSideEffect == ~last'.wrote /\ ~last'.ext /\ fs' = fs

SkipsExisting(s) ==
    Handling(s) /\ OutputExists(s, Head(queue)) /\ ~ConsentGiven => NoSideEffect

AsksAndReruns(s) ==
    Handling(s) /\ OutputExists(s, Head(queue)) =>
        /\ last'.asked
        /\ last'.answer \in AffirmativeAnswers => last'.ran

NewAudio(n)      == fs'.audio[n] /\ ~fs.audio[n]
NewTranscript(n) == fs'.srt[n] /\ ~fs.srt[n]
NewAnalysis(n)   == fs'.analysis[n] /\ ~fs.analysis[n]
NewOrganized(n)  == fs'.organized[n] /\ ~fs.organized[n]
NewHighlights(n) == fs'.highlights[n] /\ ~fs.highlights[n]
NewCut(n)        == Len(fs'.folders[n]) > Len(fs.folders[n])
NewApproved(n) ==
    \E k \in 1..Len(fs.folders[n]) : fs'.folders[n][k].approved /\ ~fs.folders[n][k].approved
NewAssembled(n) ==
    \E k \in 1..Len(fs.folders[n]) : fs'.folders[n][k].complete /\ ~fs.folders[n][k].complete
ApprovedBefore(n) ==
    \A k \in 1..Len(fs.folders[n]) :
        fs'.folders[n][k].complete /\ ~fs.folders[n][k].complete => fs.folders[n][k].approved

\* C4 (as stated): a logical video gets the output of a state of the chain
\* only when the output of the immediately preceding state exists.
C4_GatedByPrecedingState ==
    [][\A n \in Names :
        /\ NewTranscript(n) => fs.audio[n]
        /\ NewAnalysis(n)   => fs.srt[n]
        /\ NewOrganized(n)  => fs.analysis[n]
        /\ NewHighlights(n) => fs.organized[n]
        /\ NewCut(n)        => fs.highlights[n]
        /\ NewApproved(n)   => fs.folders[n] # <<>>
        /\ NewAssembled(n)  => ApprovedBefore(n)]_vars

\* C4 (amended): a transcript is written only when the audio exists, an
\* analysis only when the transcript exists, an Organized project only when
\* video, audio and transcript exist, a highlights file only when the
\* transcript exists, a cut folder only when highlights file and video exist,
\* an approval only in a cut folder, an assembly only when the folder's
\* approval and the video exist.
C4_GatedByInputs ==
    [][\A n \in Names :
        /\ NewTranscript(n) => fs.audio[n]
        /\ NewAnalysis(n)   => fs.srt[n]
        /\ NewOrganized(n)  => fs.video[n] /\ fs.audio[n] /\ fs.srt[n]
        /\ NewHighlights(n) => fs.srt[n]
        /\ NewCut(n)        => fs.highlights[n] /\ fs.video[n]
        /\ NewApproved(n)   => fs.folders[n] # <<>>
        /\ NewAssembled(n)  => ApprovedBefore(n) /\ fs.video[n]]_vars

\* C4 witness: an Organized project was made for a video that has no analysis.
C4_Witness ==
    /\ last.step = "organize"
    /\ last.wrote
    /\ fs.organized[last.item[1]]
    /\ ~fs.analysis[last.item[1]]

\* C8: no step raises, and no item of a batch is left unhandled, whatever
\* fails while an item is handled (the read or parse of its JSON file
\* included).
C8_PerItemIsolation == ~stepOutcome.raised /\ stepOutcome.dropped = <<>>

\* ------------------------------------------------------------------------
\* Agent.runAnalyzeStep with ClaudeAnalyzer.analyzeSRT (src/unnamed/part_002)
\* ------------------------------------------------------------------------

\* The .srt files of separated-audio in directory order, each with whether
\* its <name>_analysis.json exists.
SrtListings ==
    LET File(n, done) == [name |-> n, analysed |-> done]
    IN  {<<>>}
        \cup {<<File(n, d)>> : n \in Names, d \in BOOLEAN}
        \cup {<<File(NameOrder[1], d), File(NameOrder[2], e)>> : d \in BOOLEAN, e \in BOOLEAN}

ErrNotJson == "Could not parse Claude response as JSON"

\* The try block of analyzeSRT for a completed request: the response text is
\* matched as it came (no fence removal), then parsed.
analyzeSRT(o) ==
    IF o.kind = "error" THEN [ok |-> FALSE, error |-> o.error]
    ELSE LET m == jsonMatch(o.text)
         IN  IF m = <<>> THEN [ok |-> FALSE, error |-> ErrNotJson]
             ELSE IF jsonParses(m) THEN [ok |-> TRUE, error |-> None]
             ELSE [ok |-> FALSE, error |-> ErrSyntax]

\* The file at the head of the queue is done with.
AnalyzeLogged(requestsMade, outcome) ==
    /\ anLog' = Append(anLog, [name |-> Head(anQueue).name, requests |-> requestsMade,
                               outcome |-> outcome])
    /\ anQueue' = Tail(anQueue)
    /\ anRequests' = 0
    /\ anpc' = IF Tail(anQueue) = <<>> THEN "returned" ELSE "loop"

RunAnalyzeStepBegin ==
    /\ anpc = "idle"
    /\ \E files \in SrtListings :
        /\ anQueue' = files
        /\ anpc' = IF files = <<>> THEN "returned" ELSE "loop"
    /\ UNCHANGED <<anRequests, anLog>>
    /\ UNCHANGED notAnalyze

\* The for body up to the await: the existence check, readSRT, and the one
\* anthropic.messages.create call of analyzeSRT.
AnalyzeFile ==
    /\ anpc = "loop"
    /\ IF Head(anQueue).analysed
       THEN AnalyzeLogged(0, "skipped")
       ELSE \E readOk \in BOOLEAN :
            IF ~readOk
            THEN AnalyzeLogged(0, "readError")
            ELSE /\ anRequests' = anRequests + 1
                 /\ anpc' = "await"
                 /\ UNCHANGED <<anQueue, anLog>>
    /\ UNCHANGED notAnalyze

\* The request completes: analyzeSRT returns and the analysis is saved, or
\* its catch logs and rethrows and the catch of the for body logs.
AnalyzeSettle ==
    /\ anpc = "await"
    /\ \E o \in RequestOutcomes :
        LET res == analyzeSRT(o)
        IN  AnalyzeLogged(anRequests, IF res.ok THEN "saved" ELSE res.error)
    /\ UNCHANGED notAnalyze

AnalyzeNext == RunAnalyzeStepBegin \/ AnalyzeFile \/ AnalyzeSettle

AnalyzeStart == AnalyzeInit /\ SelInit /\ RetryInit /\ AllInit /\ MediaInit /\ StepsInit /\ PureInit

SpecAnalyze == AnalyzeStart /\ [][AnalyzeNext]_vars

ServiceFailures == TransportErrors \cup {ErrNotJson, ErrSyntax}

\* C11: a failure of the text-generation call of the analyze step is thrown
\* only after the request was retried, and it aborts that file only: the step
\* returns with every listed file handled.
C11_AnalyzeRetries ==
    /\ \A i \in 1..Len(anLog) :
        anLog[i].outcome \in ServiceFailures => anLog[i].requests >= 2
    /\ anpc = "returned" => anQueue = <<>>

\* ------------------------------------------------------------------------
\* HighlightsSelector.parseSelection (src/unnamed/part_000) and
\* ApprovedHighlightsSelector.parseSelection (src/src/fullVideoAssembler.ts)
\* with their callers, on the characters of the typed answer
\* ------------------------------------------------------------------------

\* Bounds of the model: the tokens of a typed list, and the number of
\* segments, respectively clips, offered.
MaxTokens == 2
MaxId == 3

DigitChars == <<"0", "1", "2", "3", "4", "5", "6", "7", "8", "9">>

IsDigit(c) == c \in Range(DigitChars)

DigitValue(c) == CHOOSE d \in 0..9 : DigitChars[d + 1] = c

\* The decimal numeral of a natural number, as typed.
RECURSIVE Digits(_)
Digits(n) ==
    IF n < 10 THEN <<DigitChars[n + 1]>>
    ELSE Digits(n \div 10) \o <<DigitChars[(n % 10) + 1]>>

\* What the operator types for one token of a list.
TokenText(t) ==
    CASE t.kind = "int"      -> Digits(t.a)
      [] t.kind = "padded"   -> <<"_">> \o Digits(t.a) \o <<"_">>
      [] t.kind = "range"    -> Digits(t.a) \o <<"-">> \o Digits(t.b)
      [] t.kind = "spaced"   -> Digits(t.a) \o <<"_", "-", "_">> \o Digits(t.b)
      [] t.kind = "suffixed" -> Digits(t.a) \o <<"x">>
      [] t.kind = "open"     -> Digits(t.a) \o <<"-">>
      [] t.kind = "neg"      -> <<"-">> \o Digits(t.a)
      [] t.kind = "word"     -> <<"x">>
      [] OTHER               -> <<>>

RECURSIVE JoinTokens(_)
JoinTokens(ts) ==
    IF ts = <<>> THEN <<>>
    ELSE IF Len(ts) = 1 THEN TokenText(ts[1])
    ELSE TokenText(ts[1]) \o <<",">> \o JoinTokens(Tail(ts))

\* The characters of a typed answer.
AnswerText(ans) == IF ans.kind = "word" THEN ans.word ELSE JoinTokens(ans.tokens)

Tok(kind, a, b) == [kind |-> kind, a |-> a, b |-> b]

Tokens ==
    {Tok("int", a, 0) : a \in 0..(MaxId + 1)}
        \cup {Tok("range", a, b) : a \in {0, 2, MaxId + 1}, b \in {0, 1, MaxId, MaxId + 1}}
        \cup {Tok("padded", 2, 0), Tok("spaced", 1, 2), Tok("suffixed", 2, 0),
              Tok("open", 2, 0), Tok("neg", 2, 0), Tok("word", 0, 0), Tok("empty", 0, 0)}

TypedWords ==
    { <<"a", "l", "l">>, <<"A", "L", "L">>, <<"_", "A", "l", "l">>,
      <<"s", "k", "i", "p">>, <<"S", "k", "i", "p", "_">>, <<"_", "_">> }

ListAnswer(ts) == [kind |-> "list", word |-> <<>>, tokens |-> ts]

Answers ==
    {[kind |-> "word", word |-> w, tokens |-> <<>>] : w \in TypedWords}
        \cup {ListAnswer(ts) : ts \in UNION {[1..n -> Tokens] : n \in 0..MaxTokens}}

\* The answers of the documented examples, with the bound they are given for.
ExampleInputs ==
    { [answer |-> ListAnswer(<<Tok("int", 3, 0), Tok("int", 1, 0), Tok("int", 3, 0),
                               Tok("range", 5, 7)>>), max |-> 10],
      [answer |-> ListAnswer(<<Tok("int", 50, 0)>>), max |-> 5],
      [answer |-> ListAnswer(<<Tok("int", 2, 0), Tok("int", 1, 0), Tok("int", 2, 0)>>), max |-> 3],
      [answer |-> ListAnswer(<<Tok("int", 9, 0), Tok("int", 1, 0)>>), max |-> 3],
      [answer |-> ListAnswer(<<Tok("range", 2, 3)>>), max |-> 3] }

SelectionInputs(lowest) ==
    [answer : Answers, max : lowest..MaxId] \cup ExampleInputs

\* String.prototype.split(sep).
RECURSIVE Split(_, _)
Split(str, sep) ==
    LET at == {i \in 1..Len(str) : str[i] = sep}
    IN  IF at = {} THEN <<str>>
        ELSE LET i == CHOOSE x \in at : \A y \in at : x <= y
             IN  <<SubSeq(str, 1, i - 1)>> \o Split(SubSeq(str, i + 1, Len(str)), sep)

\* The value of a sequence of digits.
RECURSIVE NumValue(_)
NumValue(ds) ==
    IF ds = <<>> THEN 0
    ELSE 10 * NumValue(SubSeq(ds, 1, Len(ds) - 1)) + DigitValue(ds[Len(ds)])

\* The longest prefix of digits.
RECURSIVE DigitPrefix(_)
DigitPrefix(str) ==
    IF str # <<>> /\ IsDigit(Head(str)) THEN <<Head(str)>> \o DigitPrefix(Tail(str)) ELSE <<>>

\* parseInt(str, 10): leading white space is skipped, a sign is taken, then
\* the longest run of digits; NaN when there is no digit; whatever follows
\* the digits is ignored.
parseInt(str) ==
    LET t      == TrimLeft(str)
        signed == t # <<>> /\ Head(t) \in {"-", "+"}
        body   == IF signed THEN Tail(t) ELSE t
        ds     == DigitPrefix(body)
    IN  IF ds = <<>> THEN [nan |-> TRUE, v |-> 0]
        ELSE [nan |-> FALSE,
              v |-> IF signed /\ Head(t) = "-" THEN 0 - NumValue(ds) ELSE NumValue(ds)]

\* A comparison that keeps the letter case.
IsAllCaseSensitive(input) == input = <<"a", "l", "l">>

\* A comparison that keeps the letter case.
IsSkipCaseSensitive(answer) == answer = <<"s", "k", "i", "p">>

\* input.toLowerCase() === 'all'.
IsAll(input) == toLowerCase(input) = <<"a", "l", "l">>

\* answer.toLowerCase() === 'skip'.
IsSkip(answer) == toLowerCase(answer) = <<"s", "k", "i", "p">>

\* Array.from({ length: n }, (_, i) => i + 1).
OneTo(n) == [i \in 1..n |-> i]

\* input.split(',').map((p) => p.trim()).
PartsOf(input) ==
    LET raw == Split(input, ",") IN [i \in 1..Len(raw) |-> trim(raw[i])]

\* Set.prototype.add for each element of a sequence: a Set keeps insertion
\* order and ignores a value it holds.
RECURSIVE AddAll(_, _)
AddAll(ids, new) ==
    IF new = <<>> THEN ids
    ELSE AddAll(IF Head(new) \in Range(ids) THEN ids ELSE Append(ids, Head(new)), Tail(new))

\* Array.from(ids) with no sort.
Unsorted(ids) == ids

\* Array.from(ids).sort((a, b) => a - b).
RECURSIVE SortNumeric(_)
SortNumeric(ids) ==
    IF ids = <<>> THEN <<>>
    ELSE LET m    == CHOOSE x \in Range(ids) : \A y \in Range(ids) : x <= y
             Rest(x) == x # m
         IN  <<m>> \o SortNumeric(SelectSeq(ids, Rest))

\* A test that clamps instead of rejecting.
BareIdsClamped(num, maxId) ==
    IF num.nan \/ maxId < 1 THEN <<>>
    ELSE IF num.v < 1 THEN <<1>>
    ELSE IF num.v > maxId THEN <<maxId>>
    ELSE <<num.v>>

\* !isNaN(num) && num >= 1 && num <= maxId: what a part without hyphen adds.
BareIds(num, maxId) ==
    IF ~num.nan /\ num.v >= 1 /\ num.v <= maxId THEN <<num.v>> ELSE <<>>

\* A loop over start..end as typed.
RangeIdsUnclamped(start, end, maxId) ==
    [i \in 1..(IF end >= start THEN end - start + 1 ELSE 0) |-> start + i - 1]

\* A loop that takes the two ends in either order.
RangeIdsEitherOrder(start, end, maxId) ==
    LET x  == IF start <= end THEN start ELSE end
        y  == IF start <= end THEN end ELSE start
        lo == IF x > 1 THEN x ELSE 1
        hi == IF y < maxId THEN y ELSE maxId
    IN  [i \in 1..(IF hi >= lo THEN hi - lo + 1 ELSE 0) |-> lo + i - 1]

\* for (let i = Math.max(1, start); i <= Math.min(maxId, end); i++).
RangeIds(start, end, maxId) ==
    LET lo == IF start > 1 THEN start ELSE 1
        hi == IF end < maxId THEN end ELSE maxId
    IN  [i \in 1..(IF hi >= lo THEN hi - lo + 1 ELSE 0) |-> lo + i - 1]

\* What one part of the list adds to the Set.
PartIds(part, maxId) ==
    IF "-" \in Range(part)
    THEN LET pieces == Split(part, "-")
             start  == parseInt(trim(pieces[1]))
             end    == parseInt(trim(pieces[2]))
         IN  IF ~start.nan /\ ~end.nan THEN RangeIds(start.v, end.v, maxId) ELSE <<>>
    ELSE BareIds(parseInt(part), maxId)

RECURSIVE CollectIds(_, _, _)
CollectIds(parts, maxId, ids) ==
    IF parts = <<>> THEN ids
    ELSE CollectIds(Tail(parts), maxId, AddAll(ids, PartIds(Head(parts), maxId)))

HighlightsSelector_parseSelection(input, maxId) ==
    IF IsAll(input) THEN OneTo(maxId)
    ELSE SortNumeric(CollectIds(PartsOf(input), maxId, <<>>))

\* A test that clamps instead of rejecting.
OrderIndexClamped(part, maxIndex) == BareIdsClamped(parseInt(part), maxIndex)

\* parseInt(part, 10), then !isNaN(num) && num >= 1 && num <= maxIndex.
OrderIndex(part, maxIndex) == BareIds(parseInt(part), maxIndex)

RECURSIVE CollectIndices(_, _)
CollectIndices(parts, maxIndex) ==
    IF parts = <<>> THEN <<>>
    ELSE OrderIndex(Head(parts), maxIndex) \o CollectIndices(Tail(parts), maxIndex)

\* A return through a Set.
ReturnIndicesAsSet(indices) == SortNumeric(AddAll(<<>>, indices))

\* return indices.
ReturnIndices(indices) == indices

ApprovedHighlightsSelector_parseSelection(input, maxIndex) ==
    IF IsAll(input) THEN OneTo(maxIndex)
    ELSE ReturnIndices(CollectIndices(PartsOf(input), maxIndex))

\* selectedIds.length === 0 gives null; the step saves a result that is not null.
ReturnsResult(ids) == Len(ids) > 0

\* metadata.clips of a cut folder with n clips: the clips are those of the
\* highlights that were cut, so their ids are not their positions.
MetadataClips(n) == [k \in 1..n |-> <<"clip", 2 * k + 1>>]

Undefined == <<"undefined", 0>>

\* An index used as it is typed.
ClipAtZeroBased(clips, idx) ==
    IF idx + 1 \in 1..Len(clips) THEN clips[idx + 1] ELSE Undefined

\* metadata.clips[idx - 1].
ClipAt(clips, idx) ==
    IF idx \in 1..Len(clips) THEN clips[idx] ELSE Undefined

\* selectedIndices.map((idx) => metadata.clips[idx - 1]).
ApprovedClips(indices, clips) == [i \in 1..Len(indices) |-> ClipAt(clips, indices[i])]

\* The question is answered through prompt (which trims); 'skip' returns null
\* before the parser is called; then the parser, the null for an empty
\* selection, the clips and the order of an approval, and the save of a
\* result by the step.
Selected(variant, in, ids) ==
    /\ selpc' = variant
    /\ selInput' = in.answer
    /\ selMax' = in.max
    /\ selOut' = IF IsSkip(trim(AnswerText(in.answer)))
                 THEN NoSelection
                 ELSE [parsed |-> TRUE, ids |-> ids, result |-> ReturnsResult(ids),
                       wrote |-> ReturnsResult(ids),
                       clips |-> IF variant = "order" /\ ReturnsResult(ids)
                                 THEN ApprovedClips(ids, MetadataClips(in.max)) ELSE <<>>,
                       order |-> IF variant = "order" /\ ReturnsResult(ids) THEN ids ELSE <<>>]

\* selectHighlights after the segments were listed (there is at least one),
\* with the save in runHighlightsStep.
SelectHighlights ==
    /\ selpc = "idle"
    /\ \E in \in SelectionInputs(1) :
        Selected("set", in,
                 HighlightsSelector_parseSelection(trim(AnswerText(in.answer)), in.max))
    /\ UNCHANGED notSel

\* selectApprovedHighlights (the metadata may list no clip), with the save in
\* runApproveHighlightsStep.
SelectApprovedHighlights ==
    /\ selpc = "idle"
    /\ \E in \in SelectionInputs(0) :
        Selected("order", in,
                 ApprovedHighlightsSelector_parseSelection(trim(AnswerText(in.answer)), in.max))
    /\ UNCHANGED notSel

SelNext == SelectHighlights \/ SelectApprovedHighlights

SelStart == SelInit /\ AnalyzeInit /\ RetryInit /\ AllInit /\ MediaInit /\ StepsInit /\ PureInit

SpecSelect == SelStart /\ [][SelNext]_vars

\* ---- properties of the two selections

SetParsed == selpc = "set" /\ selOut.parsed
OrderParsed == selpc = "order" /\ selOut.parsed
ListTyped == selInput.kind = "list"

TypedTokens == Range(selInput.tokens)

\* The answer is a list of bare integers, respectively of bare integers and
\* ranges a-b.
OnlyIntegers == ListTyped /\ \A t \in TypedTokens : t.kind = "int"
OnlyIntegersAndRanges == ListTyped /\ \A t \in TypedTokens : t.kind \in {"int", "range"}

InBounds(n) == 1 <= n /\ n <= selMax

StrictlyIncreasing(ids) == \A i \in 1..(Len(ids) - 1) : ids[i] < ids[i + 1]

\* The identifiers a valid token of the set grammar names.
NamedBy(t) ==
    IF t.kind = "int" /\ InBounds(t.a) THEN {t.a}
    ELSE IF t.kind = "range" /\ InBounds(t.a) /\ InBounds(t.b) THEN t.a..t.b
    ELSE {}

SetExample == ListAnswer(<<Tok("int", 3, 0), Tok("int", 1, 0), Tok("int", 3, 0), Tok("range", 5, 7)>>)

\* C12: whatever the order typed, set-selection returns a strictly increasing
\* sequence (so without duplicate) that holds every identifier a valid token
\* names; "3,1,3,5-7" with 10 segments gives 1,3,5,6,7.
C12_SetSortedDedup ==
    SetParsed =>
        /\ StrictlyIncreasing(selOut.ids)
        /\ ListTyped => \A t \in TypedTokens : NamedBy(t) \subseteq Range(selOut.ids)
        /\ selInput = SetExample /\ selMax = 10 => selOut.ids = <<1, 3, 5, 6, 7>>

\* C12 witness: the documented example was parsed.
C12_Witness ==
    /\ SetParsed
    /\ selInput = SetExample /\ selMax = 10
    /\ selOut.ids = <<1, 3, 5, 6, 7>>

\* C13: in set-selection a bare integer n gives n when 1 <= n <= maxId and
\* nothing otherwise (it is not clamped); "50" with 5 segments gives nothing.
C13_BareIntegerDropped ==
    SetParsed /\ OnlyIntegers =>
        /\ Range(selOut.ids) = {t.a : t \in {u \in TypedTokens : InBounds(u.a)}}
        /\ selInput = ListAnswer(<<Tok("int", 50, 0)>>) /\ selMax = 5 => selOut.ids = <<>>

\* C13 witness: "50" was typed for 5 segments and nothing was selected.
C13_Witness ==
    /\ SetParsed
    /\ selInput = ListAnswer(<<Tok("int", 50, 0)>>) /\ selMax = 5
    /\ selOut.ids = <<>>

Clamp(n) == IF n < 1 THEN 1 ELSE IF n > selMax THEN selMax ELSE n

\* What a token gives when each of its numerals is clamped into [1, maxId].
ClampedIds(t) == IF t.kind = "int" THEN {Clamp(t.a)} ELSE Clamp(t.a)..Clamp(t.b)

\* C14 (as stated): set-selection clamps every numeral, a bare integer as
\* well as each end of a range, into [1, maxId] before inclusion.
C14_EveryNumeralClamped ==
    SetParsed /\ OnlyIntegersAndRanges =>
        Range(selOut.ids) = UNION {ClampedIds(t) : t \in TypedTokens}

\* What a token gives: a bare integer itself when it lies in [1, maxId], a
\* range a-b the integers of [1, maxId] from a to b.
BoundedIds(t) ==
    IF t.kind = "int" THEN {t.a} \cap 1..selMax ELSE {i \in 1..selMax : t.a <= i /\ i <= t.b}

\* C14 (amended): only the ends of a range are bounded, the start from below
\* by 1 and the end from above by maxId: a range a-b gives the integers i
\* with max(1, a) <= i <= min(maxId, b); a bare integer is not clamped but
\* dropped when it lies outside [1, maxId].
C14_RangeEndsBounded ==
    SetParsed /\ OnlyIntegersAndRanges =>
        Range(selOut.ids) = UNION {BoundedIds(t) : t \in TypedTokens}

\* C14 witness: a range that reaches beyond maxId was typed and gave its part
\* up to maxId.
C14_Witness ==
    /\ SetParsed /\ OnlyIntegersAndRanges
    /\ \E t \in TypedTokens :
        /\ t.kind = "range" /\ InBounds(t.a) /\ t.b > selMax
        /\ t.a..selMax \subseteq Range(selOut.ids)

\* A range whose start is greater than its end once both are bounded.
Reversed(t) ==
    /\ t.kind \in {"range", "spaced"}
    /\ (IF t.a > 1 THEN t.a ELSE 1) > (IF t.b < selMax THEN t.b ELSE selMax)

NotReversed(t) == ~Reversed(t)

\* C15: a range whose start is greater than its end after clamping gives
\* nothing and raises nothing: the selection is that of the answer without
\* such ranges.
C15_ReversedRangeIgnored ==
    SetParsed /\ ListTyped =>
        selOut.ids = HighlightsSelector_parseSelection(
                        JoinTokens(SelectSeq(selInput.tokens, NotReversed)), selMax)

\* C15 witness: a reversed range was typed next to a token that selected
\* something.
C15_Witness ==
    /\ SetParsed /\ ListTyped
    /\ \E t \in TypedTokens : Reversed(t) /\ t.a > t.b
    /\ selOut.ids # <<>>

\* The answers that are the word all, in some letter case.
AllTyped ==
    /\ selInput.kind = "word"
    /\ selInput.word \in {<<"a", "l", "l">>, <<"A", "L", "L">>, <<"_", "A", "l", "l">>}

\* C16: the answer 'all' in any letter case gives 1..maxId in set-selection
\* and 1..maxIndex in order-selection, ascending and without duplicate.
C16_AllSelectsEverything ==
    selpc \in {"set", "order"} /\ AllTyped =>
        /\ selOut.parsed
        /\ Len(selOut.ids) = selMax
        /\ \A i \in 1..selMax : selOut.ids[i] = i

\* C16 witness: ALL was typed in upper case at the order-selection of several
\* clips.
C16_Witness ==
    /\ selpc = "order"
    /\ selInput.word = <<"A", "L", "L">>
    /\ selMax >= 2 /\ Len(selOut.ids) = selMax

\* The sequence xs is ys with some elements left out.
RECURSIVE Embeds(_, _)
Embeds(xs, ys) ==
    IF xs = <<>> THEN TRUE
    ELSE IF ys = <<>> THEN FALSE
    ELSE IF Head(xs) = Head(ys) THEN Embeds(Tail(xs), Tail(ys))
    ELSE Embeds(xs, Tail(ys))

IsInteger(t) == t.kind = "int"
IsValidInteger(t) == t.kind = "int" /\ InBounds(t.a)
HasNumeral(t) == t.kind \notin {"word", "empty"}

NumeralsOf(ts) == [i \in 1..Len(ts) |-> ts[i].a]

C18_OutOfRangeDropped ==
    OrderParsed =>
        /\ \A i \in 1..Len(selOut.ids) : InBounds(selOut.ids[i])
        /\ OnlyIntegers =>
              selOut.ids = NumeralsOf(SelectSeq(selInput.tokens, IsValidInteger))
        /\ selInput = ListAnswer(<<Tok("int", 9, 0), Tok("int", 1, 0)>>) /\ selMax = 3
              => selOut.ids = <<1>>

\* C18 witness: "9,1" was typed for 3 clips.
C18_Witness ==
    /\ OrderParsed
    /\ selInput = ListAnswer(<<Tok("int", 9, 0), Tok("int", 1, 0)>>) /\ selMax = 3
    /\ selOut.ids = <<1>>

\* A bare integer, with or without blanks around it.
IsBareInteger(t) == t.kind \in {"int", "padded"}
IsValidBareInteger(t) == IsBareInteger(t) /\ InBounds(t.a)

\* C19: order-selection takes bare integers only: a token that is not a bare
\* integer (a range 2-3, an integer followed by other characters) gives no
\* index.
C19_BareIntegersOnly ==
    OrderParsed /\ ListTyped =>
        selOut.ids = NumeralsOf(SelectSeq(selInput.tokens, IsValidBareInteger))

\* The tokens of each grammar, and the answers that select nothing: blank,
\* or a list with no valid token that lies in range.
ValidToken(t) ==
    IF selpc = "set" THEN t.kind \in {"int", "padded", "range", "spaced"} ELSE IsBareInteger(t)

SelectsNothing(t) ==
    \/ ~ValidToken(t)
    \/ IsBareInteger(t) /\ ~InBounds(t.a)
    \/ t.kind \in {"range", "spaced"} /\ ~InBounds(t.a) /\ ~InBounds(t.b) /\ (t.a > selMax \/ t.b < 1)

DegenerateAnswer ==
    \/ selInput.kind = "word" /\ selInput.word = <<"_", "_">>
    \/ ListTyped /\ \A t \in TypedTokens : SelectsNothing(t)

\* C20: in both variants a blank answer, an answer of invalid tokens only and
\* an answer of out-of-range numbers only give an empty result; the caller
\* returns null and the step writes no file.
C20_DegenerateAnswers ==
    selpc \in {"set", "order"} /\ DegenerateAnswer =>
        /\ selOut.parsed
        /\ selOut.ids = <<>>
        /\ ~selOut.result
        /\ ~selOut.wrote

\* The answers that are the word skip, in some letter case.
SkipTyped ==
    /\ selInput.kind = "word"
    /\ selInput.word \in {<<"s", "k", "i", "p">>, <<"S", "k", "i", "p", "_">>}

\* C21: the answer 'skip' in any letter case is matched before the parser
\* runs, in both selections: the parser is not called, the result is null and
\* the step writes no file.
C21_SkipBeforeParser ==
    selpc \in {"set", "order"} /\ SkipTyped =>
        /\ ~selOut.parsed
        /\ ~selOut.result
        /\ ~selOut.wrote

\* C21 witness: Skip was typed with a capital and a trailing blank at the
\* order-selection.
C21_Witness ==
    /\ selpc = "order"
    /\ selInput.word = <<"S", "k", "i", "p", "_">>
    /\ ~selOut.parsed /\ ~selOut.wrote

\* C22: an approval that selectApprovedHighlights returns has as many clips
\* as order values, at least one; every order value lies in 1..number of
\* clips of the metadata; the clip at each position is the clip of the
\* metadata at the 1-based index order gives there, never undefined.
C22_ApprovedSelectionShape ==
    selpc = "order" /\ selOut.result =>
        /\ Len(selOut.clips) = Len(selOut.order)
        /\ Len(selOut.order) >= 1
        /\ \A i \in 1..Len(selOut.order) :
            /\ selOut.order[i] \in 1..selMax
            /\ selOut.clips[i] = <<"clip", 2 * selOut.order[i] + 1>>
            /\ selOut.clips[i] # <<"undefined", 0>>

\* C22 witness: an approval that repeats a clip and leaves one out.
C22_Witness ==
    /\ selpc = "order" /\ selOut.result
    /\ selMax = 3
    /\ selOut.order = <<2, 1, 2>>
    /\ Len(selOut.clips) = 3

\* C30: the list handed to the concatenation is the approved clips in the
\* order of the approval, repeats kept, then the intro exactly when one was
\* supplied, then the original video as last element; its length is the
\* number of clips, plus one with an intro, plus one.
C30_ConcatInputOrder ==
    "concat" \in Range(asmLog) =>
        LET files == asmOut.allFiles
            n     == Len(asm.clips)
        IN  /\ Len(files) = n + (IF asm.intro THEN 1 ELSE 0) + 1
            /\ \A i \in 1..n : files[i] = <<"clip", asm.clips[i]>>
            /\ asm.intro => files[n + 1] = <<"intro", 0>>
            /\ \A i \in 1..Len(files) : files[i] = <<"intro", 0>> => asm.intro /\ i = n + 1
            /\ files[Len(files)] = <<"original", 0>>

\* C30 witness: the concatenation was started for an approval that repeats a
\* clip, with an intro.
C30_Witness ==
    /\ "concat" \in Range(asmLog)
    /\ asm.intro
    /\ Len(asm.clips) = 2 /\ asm.clips[1] = asm.clips[2]
    /\ Len(asmOut.allFiles) = 4

(***************************************************************************)
(* HighlightsSelector.parseSRT and the head of selectHighlights.           *)
(*                                                                         *)
(* A caption file is the sequence of its lines (the text between two \n),  *)
(* each line a sequence of characters; the empty file is one empty line.   *)
(* Files whose lines end in \r\n are not among the inputs.                 *)
(***************************************************************************)

\* The most blocks a caption file holds here.
MaxBlocks == 2

\* ---- the caption files read (the input side)

IndexLines == {<<"1">>, <<"2">>, <<"x">>}

TimeForms == {"comma", "period", "none"}

\* A block: its index line, the form of its time-range line ("none": the block
\* has no such line) and the number of its text lines.
CaptionBlocks ==
    {b \in [idx : IndexLines, time : TimeForms, texts : 0..2] :
        b.idx = <<"x">> => (b.time = "comma" /\ b.texts = 1)}

Pad2(n) == IF n < 10 THEN <<"0">> \o Digits(n) ELSE Digits(n)

Pad3(n) == IF n < 10 THEN <<"0", "0">> \o Digits(n)
           ELSE IF n < 100 THEN <<"0">> \o Digits(n) ELSE Digits(n)

\* HH:MM:SS,mmm or HH:MM:SS.mmm
Stamp(t, sep) ==
    Pad2(t.h) \o <<":">> \o Pad2(t.m) \o <<":">> \o Pad2(t.s) \o <<sep>> \o Pad3(t.ms)

SepOf(form) == IF form = "period" THEN "." ELSE ","

\* The i-th block of a file runs from second i to second i.500 of minute i.
BlockStart(i) == [h |-> 0, m |-> 0, s |-> i, ms |-> 0]
BlockEnd(i) == [h |-> 0, m |-> i, s |-> i, ms |-> 500]

TimeLine(i, form) ==
    Stamp(BlockStart(i), SepOf(form)) \o <<"_", "-", "-", ">", "_">>
        \o Stamp(BlockEnd(i), SepOf(form))

TextLines(b) ==
    IF b.texts = 0 THEN <<>>
    ELSE IF b.texts = 1 THEN << <<"t">> \o b.idx >>
    ELSE << <<"t">> \o b.idx, <<"u", "_">> >>

BlockLines(b, i) ==
    <<b.idx>> \o (IF b.time = "none" THEN <<>> ELSE <<TimeLine(i, b.time)>>) \o TextLines(b)

EmptyLines(n) == [k \in 1..n |-> <<>>]

RECURSIVE JoinBlocks(_, _, _)
JoinBlocks(blocks, i, gap) ==
    IF i > Len(blocks) THEN <<>>
    ELSE (IF i > 1 THEN EmptyLines(gap) ELSE <<>>)
            \o BlockLines(blocks[i], i) \o JoinBlocks(blocks, i + 1, gap)

\* The lines of the file: the blocks, `gap` empty lines between two of them,
\* and with `lead` an empty line before the first and after the last.
ContentLines(in) ==
    IF in.blocks = <<>> THEN (IF in.lead THEN <<<<>>, <<>>>> ELSE <<<<>>>>)
    ELSE (IF in.lead THEN <<<<>>>> ELSE <<>>)
            \o JoinBlocks(in.blocks, 1, in.gap)
            \o (IF in.lead THEN <<<<>>>> ELSE <<>>)

BlockSeqs == UNION {[1..n -> CaptionBlocks] : n \in 0..MaxBlocks}

Layouts == {[gap |-> 1, lead |-> FALSE], [gap |-> 2, lead |-> TRUE]}

CaptionInputs ==
    {[blocks |-> bs, gap |-> l.gap, lead |-> l.lead] : bs \in BlockSeqs, l \in Layouts}

\* ---- parseSRT (the code side)

IsWhite(line) == \A i \in 1..Len(line) : line[i] = "_"

\* srtContent.trim(), seen on the lines: white lines at either end go, and the
\* first and last line left lose their outer white space.
RECURSIVE TrimContentStart(_)
TrimContentStart(lines) ==
    IF Len(lines) = 1 THEN <<TrimLeft(lines[1])>>
    ELSE IF IsWhite(Head(lines)) THEN TrimContentStart(Tail(lines))
    ELSE <<TrimLeft(Head(lines))>> \o Tail(lines)

RECURSIVE TrimContentEnd(_)
TrimContentEnd(lines) ==
    IF Len(lines) = 1 THEN <<TrimRight(lines[1])>>
    ELSE IF IsWhite(lines[Len(lines)]) THEN TrimContentEnd(SubSeq(lines, 1, Len(lines) - 1))
    ELSE SubSeq(lines, 1, Len(lines) - 1) \o <<TrimRight(lines[Len(lines)])>>

TrimContent(lines) == TrimContentEnd(TrimContentStart(lines))

RECURSIVE DropEmptyLines(_)
DropEmptyLines(lines) ==
    IF lines # <<>> /\ Head(lines) = <<>> THEN DropEmptyLines(Tail(lines)) ELSE lines

\* split(/\n\n+/) then block.split('\n'): two or more \n in a row, that is a
\* run of empty lines, end a block; each block is the sequence of its lines.
RECURSIVE SplitBlocks(_, _)
SplitBlocks(rest, block) ==
    IF rest = <<>> THEN <<block>>
    ELSE IF Head(rest) = <<>> /\ block # <<>>
         THEN <<block>> \o SplitBlocks(DropEmptyLines(rest), <<>>)
    ELSE SplitBlocks(Tail(rest), Append(block, Head(rest)))

\* \d{2}:\d{2}:\d{2},\d{3} at position i
IsStamp(str, i) ==
    /\ i + 11 <= Len(str)
    /\ \A k \in 0..11 :
          IF k \in {2, 5} THEN str[i + k] = ":"
          ELSE IF k = 8 THEN str[i + k] = ","
          ELSE IsDigit(str[i + k])

\* \s* from position i: the position after the white space
RECURSIVE SkipWhite(_, _)
SkipWhite(str, i) ==
    IF i <= Len(str) /\ str[i] = "_" THEN SkipWhite(str, i + 1) ELSE i

ArrowAt(str, i) ==
    i + 2 <= Len(str) /\ str[i] = "-" /\ str[i + 1] = "-" /\ str[i + 2] = ">"

TimeRangeAt(str, i) ==
    /\ IsStamp(str, i)
    /\ LET a == SkipWhite(str, i + 12)
       IN  ArrowAt(str, a) /\ IsStamp(str, SkipWhite(str, a + 3))

\* lines[1].match(...): the leftmost match anywhere in the line, with its two
\* groups; ok is FALSE when the line has no match.
timeMatch(line) ==
    LET at == {i \in 1..Len(line) : TimeRangeAt(line, i)}
    IN  IF at = {} THEN [ok |-> FALSE, g1 |-> <<>>, g2 |-> <<>>]
        ELSE LET i == CHOOSE x \in at : \A y \in at : x <= y
                 j == SkipWhite(line, SkipWhite(line, i + 12) + 3)
             IN  [ok |-> TRUE, g1 |-> SubSeq(line, i, i + 11), g2 |-> SubSeq(line, j, j + 11)]

\* str.replace(',', '.'): the first comma becomes a period.
ReplaceComma(str) ==
    LET at == {i \in 1..Len(str) : str[i] = ","}
    IN  IF at = {} THEN str
        ELSE LET i == CHOOSE x \in at : \A y \in at : x <= y
             IN  [str EXCEPT ![i] = "."]

\* lines.join(' ')
RECURSIVE JoinLines(_)
JoinLines(lines) ==
    IF lines = <<>> THEN <<>>
    ELSE IF Len(lines) = 1 THEN lines[1]
    ELSE lines[1] \o <<"_">> \o JoinLines(Tail(lines))

HasThreeLines(lines) == Len(lines) >= 3

\* The segments one block gives: one, or none when the block is skipped.
BlockSegments(lines) ==
    IF ~HasThreeLines(lines) THEN <<>>
    ELSE LET id == parseInt(lines[1])
             tm == timeMatch(lines[2])
         IN  IF ~tm.ok THEN <<>>
             ELSE << [id        |-> id,
                      startTime |-> ReplaceComma(tm.g1),
                      endTime   |-> ReplaceComma(tm.g2),
                      text      |-> trim(JoinLines(SubSeq(lines, 3, Len(lines))))] >>

RECURSIVE SegmentsOf(_)
SegmentsOf(blocks) ==
    IF blocks = <<>> THEN <<>>
    ELSE BlockSegments(Head(blocks)) \o SegmentsOf(Tail(blocks))

parseSRT(srtContent) == SegmentsOf(SplitBlocks(TrimContent(srtContent), <<>>))

\* ---- selectHighlights up to the question, and what the step saves

\* A variant that never finds the segment sequence empty.
NothingToSelectNever(segments) == FALSE

NothingToSelect(segments) == Len(segments) = 0

\* What the operator answers to the question of selectHighlights here.
SrtAnswers == {<<"a", "l", "l">>, <<"1">>, <<"s", "k", "i", "p">>}

\* selectedIds.includes(s.id); NaN is no element of selectedIds.
Includes(selectedIds, id) == ~id.nan /\ id.v \in Range(selectedIds)

\* segments.filter((s) => selectedIds.includes(s.id))
HighlightsOf(segments, selectedIds) ==
    LET Chosen(sg) == Includes(selectedIds, sg.id)
    IN  SelectSeq(segments, Chosen)

\* The file is read and parsed; without segments null is returned at once and
\* the step saves nothing; with segments the operator is asked, the answer is
\* parsed against segments.length, and unless it is skip or selects nothing
\* the segments whose id was selected are the highlights, which the step saves.
SelectHighlightsRead ==
    /\ srtpc = "idle"
    /\ \E in \in CaptionInputs :
          LET segments == parseSRT(ContentLines(in))
          IN  /\ srtIn' = in
              /\ IF NothingToSelect(segments)
                 THEN srtOut' = [NothingParsed EXCEPT !.segments = segments]
                 ELSE \E typed \in SrtAnswers :
                        LET answer      == trim(typed)
                            selectedIds == IF IsSkip(answer) THEN <<>>
                                           ELSE HighlightsSelector_parseSelection(
                                                    answer, Len(segments))
                        IN  srtOut' = [NothingParsed EXCEPT
                                          !.segments    = segments,
                                          !.asked       = TRUE,
                                          !.answer      = typed,
                                          !.selectedIds = selectedIds,
                                          !.wrote       = ReturnsResult(selectedIds),
                                          !.highlights  = HighlightsOf(segments, selectedIds)]
    /\ srtpc' = "read"
    /\ UNCHANGED notSrt

\* highlight.id.toString().padStart(2, '0')
PadStart2(id) == IF Len(Digits(id)) < 2 THEN <<"0">> \o Digits(id) ELSE Digits(id)

\* `${videoName}_highlight_${...}.mp4`
outputFileName(highlight) == <<"highlight", PadStart2(highlight.id.v)>>

\* cutHighlights on the highlights file just saved: one cut after the other,
\* each to its output file; a cut may fail, and the clips of those that ended
\* are the clips of the metadata, in order.
CutSavedHighlights ==
    /\ srtpc = "read"
    /\ srtOut.wrote
    /\ \E failing \in 0..Len(srtOut.highlights) :
          LET Ended(i) == i # failing
              ended    == SelectSeq([i \in 1..Len(srtOut.highlights) |-> i], Ended)
          IN  srtOut' = [srtOut EXCEPT
                            !.clips = [k \in 1..Len(ended) |->
                                          outputFileName(srtOut.highlights[ended[k]])]]
    /\ srtpc' = "cut"
    /\ UNCHANGED srtIn
    /\ UNCHANGED notSrt

\* readFileSync throws: the step's catch logs it, nothing is asked or saved.
SelectHighlightsReadFails ==
    /\ srtpc = "idle"
    /\ \E in \in CaptionInputs : srtIn' = in
    /\ srtOut' = [NothingParsed EXCEPT !.failed = TRUE]
    /\ srtpc' = "read"
    /\ UNCHANGED notSrt

\* The loop of the step goes on to the next caption file.
NextSrtFile ==
    /\ srtpc \in {"read", "cut"}
    /\ srtpc' = "idle"
    /\ srtIn' = NoCaptions
    /\ srtOut' = NothingParsed
    /\ UNCHANGED notSrt

SrtNext ==
    SelectHighlightsRead \/ SelectHighlightsReadFails \/ CutSavedHighlights \/ NextSrtFile

SrtStart == SrtInit /\ TimeInit /\ DurInit /\ WriteInit /\ AnalyzeInit /\ SelInit /\ RetryInit /\ AllInit /\ MediaInit /\ StepsInit

SpecSrt == SrtStart /\ [][SrtNext]_vars

\* ---- claims about the caption parser

Parsed == srtpc \in {"read", "cut"} /\ ~srtOut.failed

\* A block as the specification wants it: at least three lines, the second a
\* time range in either form.
WellFormed(b) == b.time # "none" /\ b.texts >= 1

WellFormedAt(in) == {i \in 1..Len(in.blocks) : WellFormed(in.blocks[i])}

\* The start times, as returned, of the blocks at the positions ps, in order.
RECURSIVE StartsFrom(_, _, _)
StartsFrom(ps, i, n) ==
    IF i > n THEN <<>>
    ELSE (IF i \in ps THEN <<Stamp(BlockStart(i), ".")>> ELSE <<>>) \o StartsFrom(ps, i + 1, n)

StartTimes(segments) == [k \in 1..Len(segments) |-> segments[k].startTime]

\* C23 (as stated): blocks with fewer than three lines or without a time range
\* are skipped, every well-formed block is returned in source order, and there
\* are as many segments as well-formed blocks.
C23_WellFormedBlocksReturned ==
    Parsed =>
        /\ Len(srtOut.segments) = Cardinality(WellFormedAt(srtIn))
        /\ StartTimes(srtOut.segments)
              = StartsFrom(WellFormedAt(srtIn), 1, Len(srtIn.blocks))

\* The same with every period-form time line of the file written with a comma.
WithCommas(in) ==
    [in EXCEPT !.blocks =
        [i \in 1..Len(in.blocks) |->
            IF in.blocks[i].time = "period"
            THEN [in.blocks[i] EXCEPT !.time = "comma"]
            ELSE in.blocks[i]]]

UsesPeriod(stamp) == "." \in Range(stamp) /\ "," \notin Range(stamp)

\* C24 (as stated): a block written with periods gives the same segment as the
\* block written with commas, and the times returned use a period.
C24_BothSeparatorsAccepted ==
    Parsed =>
        /\ srtOut.segments = parseSRT(ContentLines(WithCommas(srtIn)))
        /\ \A k \in 1..Len(srtOut.segments) :
              UsesPeriod(srtOut.segments[k].startTime) /\ UsesPeriod(srtOut.segments[k].endTime)

\* C25 (as stated): the ids returned are integers, count from 1 in source
\* order and increase strictly, whatever the index lines hold.
C25_IdsOneBasedIncreasing ==
    Parsed =>
        \A k \in 1..Len(srtOut.segments) :
            /\ ~srtOut.segments[k].id.nan
            /\ srtOut.segments[k].id.v = k
            /\ k > 1 => srtOut.segments[k - 1].id.v < srtOut.segments[k].id.v

NoBlockWellFormed(in) == WellFormedAt(in) = {}

\* C26: an empty caption file, and one whose blocks are all malformed, give
\* no segment; selectHighlights then returns null without asking, and the step
\* writes no highlights file.
C26_NothingToSelectFrom ==
    (Parsed /\ NoBlockWellFormed(srtIn)) =>
        /\ srtOut.segments = <<>>
        /\ ~srtOut.asked
        /\ ~srtOut.wrote

\* C26 witness: a file of two malformed blocks was read and nothing was asked.
C26_Witness ==
    /\ Parsed
    /\ Len(srtIn.blocks) = 2
    /\ NoBlockWellFormed(srtIn)
    /\ srtIn.blocks[1].time = "comma" /\ srtIn.blocks[2].texts = 2
    /\ ~srtOut.asked

\* C26 witness of the empty file.
C26_EmptyFileRead == Parsed /\ srtIn.blocks = <<>> /\ srtOut.segments = <<>>

(***************************************************************************)
(* HighlightsCutter.timeToSeconds and cutSingleHighlight.                  *)
(*                                                                         *)
(* Seconds are kept as whole milliseconds; the times of the highlights lie *)
(* on tenths of a second, where the binary fractions of the code's numbers *)
(* round to the same one-decimal string as the exact values.               *)
(***************************************************************************)

\* The largest hour of a highlight's times.
MaxHours == 1

\* ---- the highlights handed to the cutter (the input side)

TimeValues == [h : 0..MaxHours, m : {0, 2}, s : {3, 10, 15}, ms : {0, 200, 500}]

HighlightInputs == [startTime : TimeValues, endTime : TimeValues, sep : {",", "."}]

\* ---- timeToSeconds (the code side)

NaN == [nan |-> TRUE, ms |-> 0]

\* The first three digits after the decimal point, as milliseconds.
Millis(fraction) ==
    LET padded == fraction \o <<"0", "0", "0">>
    IN  NumValue(SubSeq(padded, 1, 3))

\* parseFloat(str): white space, a sign, digits, then a point and digits;
\* what follows is ignored; NaN without any digit.
parseFloat(str) ==
    LET t        == TrimLeft(str)
        signed   == t # <<>> /\ Head(t) \in {"-", "+"}
        body     == IF signed THEN Tail(t) ELSE t
        whole    == DigitPrefix(body)
        rest     == SubSeq(body, Len(whole) + 1, Len(body))
        fraction == IF rest # <<>> /\ Head(rest) = "." THEN DigitPrefix(Tail(rest)) ELSE <<>>
        value    == NumValue(whole) * 1000 + Millis(fraction)
    IN  IF whole = <<>> /\ fraction = <<>> THEN NaN
        ELSE Seconds(IF signed /\ Head(t) = "-" THEN 0 - value ELSE value)

\* A variant that leaves the separator as it is.
NotNormalized(time) == time

\* time.replace(',', '.')
Normalized(time) == ReplaceComma(time)

timeToSeconds(time) ==
    LET parts == Split(Normalized(time), ":")
    IN  IF Len(parts) = 3
        THEN LET hours   == parseFloat(parts[1])
                 minutes == parseFloat(parts[2])
                 seconds == parseFloat(parts[3])
             IN  IF hours.nan \/ minutes.nan \/ seconds.nan THEN NaN
                 ELSE Seconds(hours.ms * 3600 + minutes.ms * 60 + seconds.ms)
        ELSE Seconds(0)

\* ---- cutSingleHighlight (the code side)

\* A variant that takes the end time as the duration.
DurationIsEnd(startSeconds, endSeconds) == endSeconds

\* endSeconds - startSeconds
Duration(startSeconds, endSeconds) ==
    IF startSeconds.nan \/ endSeconds.nan THEN NaN
    ELSE Seconds(endSeconds.ms - startSeconds.ms)

\* x.toFixed(1): the sign, then the nearest number of tenths, the larger one
\* when two are as near.
toFixed1(x) ==
    IF x.nan THEN <<"N", "a", "N">>
    ELSE LET abs    == IF x.ms < 0 THEN 0 - x.ms ELSE x.ms
             tenths == (abs + 50) \div 100
         IN  (IF x.ms < 0 THEN <<"-">> ELSE <<>>)
                \o Digits(tenths \div 10) \o <<".">> \o Digits(tenths % 10)

\* `${duration.toFixed(1)}s`
DurationText(duration) == toFixed1(duration) \o <<"s">>

\* What cutSingleHighlight computes and hands to ffmpeg, whatever follows.
Transcode(in) ==
    LET startSeconds == timeToSeconds(Stamp(in.startTime, in.sep))
        endSeconds   == timeToSeconds(Stamp(in.endTime, in.sep))
    IN  [NothingCut EXCEPT !.startSeconds = startSeconds,
                           !.endSeconds   = endSeconds,
                           !.transcodes   = 1,
                           !.setStartTime = startSeconds,
                           !.setDuration  = Duration(startSeconds, endSeconds)]

\* ffmpeg ends: the promise resolves with the CutResult, cutHighlights pushes
\* it onto results and saveMetadata writes it as a clip.
CutSingleHighlightEnd ==
    /\ tpc = "idle"
    /\ \E in \in HighlightInputs :
          LET t == Transcode(in)
          IN  /\ tIn' = in
              /\ tOut' = [t EXCEPT !.resolved = TRUE,
                                   !.results  = <<DurationText(t.setDuration)>>,
                                   !.clips    = <<DurationText(t.setDuration)>>]
    /\ tpc' = "cut"
    /\ UNCHANGED notTime

\* ffmpeg fails: the promise rejects, cutHighlights logs it, nothing is pushed.
CutSingleHighlightError ==
    /\ tpc = "idle"
    /\ \E in \in HighlightInputs :
          /\ tIn' = in
          /\ tOut' = Transcode(in)
    /\ tpc' = "cut"
    /\ UNCHANGED notTime

\* The loop of cutHighlights goes on to the next highlight.
NextHighlight ==
    /\ tpc = "cut"
    /\ tpc' = "idle"
    /\ tIn' = NoHighlight
    /\ tOut' = NothingCut
    /\ UNCHANGED notTime

TimeNext == CutSingleHighlightEnd \/ CutSingleHighlightError \/ NextHighlight

TimeStart == TimeInit /\ SrtInit /\ DurInit /\ WriteInit /\ AnalyzeInit /\ SelInit /\ RetryInit /\ AllInit /\ MediaInit /\ StepsInit

SpecTime == TimeStart /\ [][TimeNext]_vars

\* ---- claims about the cutter

\* The value of a time, in milliseconds, from its fields.
ToMs(t) == ((t.h * 60 + t.m) * 60 + t.s) * 1000 + t.ms

ExampleTime == [h |-> 1, m |-> 2, s |-> 3, ms |-> 500]

\* C27: timeToSeconds of HH:MM:SS.mmm is h*3600 + m*60 + s with the
\* milliseconds as the fraction (01:02:03.500 gives 3723.5), and the time
\* written with a comma gives the same value as with a period.
C27_TimeConversion ==
    tpc = "cut" =>
        /\ tOut.startSeconds = Seconds(ToMs(tIn.startTime))
        /\ tOut.endSeconds = Seconds(ToMs(tIn.endTime))
        /\ timeToSeconds(Stamp(tIn.startTime, ",")) = timeToSeconds(Stamp(tIn.startTime, "."))
        /\ timeToSeconds(Stamp(tIn.endTime, ",")) = timeToSeconds(Stamp(tIn.endTime, "."))
        /\ tIn.startTime = ExampleTime => tOut.startSeconds = Seconds(3723500)

\* C27 witness: 01:02:03,500, written with a comma, was converted to 3723.5.
C27_Witness ==
    /\ tpc = "cut"
    /\ tIn.startTime = ExampleTime
    /\ tIn.sep = ","
    /\ tOut.startSeconds = Seconds(3723500)

\* The text of a number of milliseconds on the tenths, with one decimal.
OneDecimal(ms) ==
    LET abs == IF ms < 0 THEN 0 - ms ELSE ms
    IN  (IF ms < 0 THEN <<"-">> ELSE <<>>)
            \o Digits(abs \div 1000) \o <<".">> \o Digits((abs % 1000) \div 100)

TenToFifteen ==
    /\ tIn.startTime = [h |-> 0, m |-> 0, s |-> 10, ms |-> 0]
    /\ tIn.endTime = [h |-> 0, m |-> 0, s |-> 15, ms |-> 0]

\* C28: for a highlight that was cut, the duration handed to the transcoder is
\* end minus start, and the duration in the result and in the metadata is that
\* value with one decimal and "s"; from 00:00:10.000 to 00:00:15.000 it is 5.0
\* and "5.0s".
C28_DurationRecorded ==
    (tpc = "cut" /\ tOut.resolved) =>
        LET d == ToMs(tIn.endTime) - ToMs(tIn.startTime)
        IN  /\ tOut.setDuration = Seconds(d)
            /\ tOut.results = <<OneDecimal(d) \o <<"s">>>>
            /\ tOut.clips = <<OneDecimal(d) \o <<"s">>>>
            /\ TenToFifteen =>
                  /\ tOut.setDuration = Seconds(5000)
                  /\ tOut.results = <<<<"5", ".", "0", "s">>>>

\* C28 witness: the highlight from 00:00:10.000 to 00:00:15.000 was cut.
C28_Witness ==
    /\ tpc = "cut"
    /\ tOut.resolved
    /\ TenToFifteen
    /\ tOut.clips = <<<<"5", ".", "0", "s">>>>

\* C28 witness of a duration with a fraction and a start past the first hour.
C28_FractionCut ==
    /\ tpc = "cut"
    /\ tOut.resolved
    /\ tIn.startTime.h = 1
    /\ tOut.results = <<<<"4", ".", "7", "s">>>>

\* C29 (as stated): a highlight whose end is not later than its start fails
\* at once: no transcode is issued for it and it is neither in the results nor
\* in the metadata.
C29_NonPositiveDurationFailsFast ==
    (tpc = "cut" /\ ToMs(tIn.endTime) <= ToMs(tIn.startTime)) =>
        /\ tOut.transcodes = 0
        /\ tOut.results = <<>>
        /\ tOut.clips = <<>>

(***************************************************************************)
(* Claims about assembleFullVideo (SpecMedia).                             *)
(***************************************************************************)

InAssembly == mpc \in {"asm_next", "asm_wait", "asm_returned", "asm_rejected"}

ClipMissing == \E i \in 1..Len(asm.clips) : asm.clips[i] \notin asm.present

\* C31: with a clip file of the approval missing, assembleFullVideo fails
\* before any other effect: the error names the first missing file in approval
\* order, no output directory is made, nothing is probed, the encoder is not
\* started and no metadata is written.
C31_MissingClipFailsFirst ==
    (InAssembly /\ ClipMissing) =>
        /\ mpc = "asm_rejected"
        /\ \E i \in 1..Len(asm.clips) :
              /\ asm.clips[i] \notin asm.present
              /\ \A j \in 1..(i - 1) : asm.clips[j] \in asm.present
              /\ asmOut.error = <<"Brak pliku klipu", asm.clips[i]>>
        /\ ~asmOut.mkdir
        /\ asmLog = <<>>
        /\ asmOut.allFiles = <<>>
        /\ ~asmOut.metadata

\* C31 witness: the first clip is there, the second is missing, the call
\* rejected naming the second.
C31_Witness ==
    /\ mpc = "asm_rejected"
    /\ Len(asm.clips) = 2
    /\ asm.clips[1] \in asm.present
    /\ asm.clips[2] \notin asm.present
    /\ asmOut.error = <<"Brak pliku klipu", asm.clips[2]>>

(***************************************************************************)
(* The durations of FullVideoAssembler.assembleFullVideo: what is probed,  *)
(* summed, returned in the AssembleResult and written to the metadata      *)
(* file. Every clip file of the approval is there (the other case is in    *)
(* SpecMedia). Seconds are kept as whole milliseconds.                     *)
(***************************************************************************)

\* The most clips an approval holds here.
MaxApproved == 2

\* ---- the call's arguments and the files (the input side)

\* The duration recorded for a clip in the approval.
RecordedDurations == {<<"5", ".", "0", "s">>, <<"0", ".", "3", "s">>}

\* What ffprobe reports for a file, in milliseconds; 0 also stands for a file
\* without a duration in its format.
ProbedDurations == {0, 1040, 5200}

\* A clip of the approval: the duration recorded for it, and what ffprobe
\* would report for its file.
ApprovedClipFiles == [duration : RecordedDurations, file : {5000, 5200}]

AssemblyInputs ==
    [clips    : UNION {[1..n -> ApprovedClipFiles] : n \in 1..MaxApproved},
     intro    : {<<>>} \cup {<<d>> : d \in ProbedDurations},
     original : ProbedDurations]

\* ---- the code side

\* clip.duration.replace('s', ''): the first s goes.
WithoutS(str) ==
    LET at == {i \in 1..Len(str) : str[i] = "s"}
    IN  IF at = {} THEN str
        ELSE LET i == CHOOSE x \in at : \A y \in at : x <= y
             IN  SubSeq(str, 1, i - 1) \o SubSeq(str, i + 1, Len(str))

\* a + b on numbers
Plus(a, b) == IF a.nan \/ b.nan THEN NaN ELSE Seconds(a.ms + b.ms)

\* clips.reduce((sum, clip) => sum + parseFloat(clip.duration.replace('s', '')), 0)
RECURSIVE calculateHighlightsDuration(_)
calculateHighlightsDuration(clips) ==
    IF clips = <<>> THEN Seconds(0)
    ELSE Plus(calculateHighlightsDuration(SubSeq(clips, 1, Len(clips) - 1)),
              parseFloat(WithoutS(clips[Len(clips)].duration)))

\* getVideoDuration resolving: metadata.format.duration || 0
getVideoDuration(probed) == Seconds(probed)

\* `${x.toFixed(1)}s`
Reported(x) == toFixed1(x) \o <<"s">>

\* A variant that leaves the intro out of the total.
TotalWithoutIntro(highlights, introArg, original) == Plus(highlights, original)

\* saveMetadata: highlightsDuration + (introDuration || 0) + originalDuration
MetadataTotal(highlights, introArg, original) ==
    Plus(Plus(highlights, IF introArg = <<>> THEN Seconds(0) ELSE introArg[1]), original)

\* saveMetadata(..., introPath ? introDuration : undefined)
Metadata(in, out) ==
    LET introArg == IF in.intro # <<>> THEN <<out.introDuration>> ELSE <<>>
    IN  [highlights    |-> Reported(out.highlightsDuration),
         intro         |-> IF introArg # <<>> THEN Reported(introArg[1]) ELSE Absent,
         original      |-> Reported(out.originalDuration),
         totalDuration |-> Reported(MetadataTotal(out.highlightsDuration, introArg,
                                                  out.originalDuration))]

\* A variant that leaves the original out of the total.
ResultTotalWithoutOriginal(highlights, intro, original) == Plus(highlights, intro)

\* highlightsDuration + introDuration + originalDuration
ResultTotal(highlights, intro, original) == Plus(Plus(highlights, intro), original)

\* The AssembleResult
AssembleResultOf(in, out) ==
    LET totalDuration == ResultTotal(out.highlightsDuration, out.introDuration,
                                     out.originalDuration)
    IN  [highlightsCount    |-> Len(in.clips),
         highlightsDuration |-> Reported(out.highlightsDuration),
         originalDuration   |-> Reported(out.originalDuration),
         totalDuration      |-> Reported(totalDuration),
         introDuration      |-> IF in.intro # <<>> THEN Reported(out.introDuration) ELSE Absent]

\* The call up to the first probe: the highlights subtotal is computed from the
\* approval; introDuration starts as 0.
AssembleDurationsBegin ==
    /\ dpc = "idle"
    /\ \E in \in AssemblyInputs :
          /\ dIn' = in
          /\ dOut' = [NothingReported EXCEPT
                         !.highlightsDuration = calculateHighlightsDuration(in.clips)]
    /\ dpc' = "probing"
    /\ UNCHANGED notDur

\* The file the next ffprobe is for.
NextProbe ==
    IF dIn.intro # <<>> /\ dOut.probes = <<>> THEN "intro" ELSE "original"

\* One ffprobe: it fails and the call rejects with its error, or it gives the
\* duration of the file.
ProbeDuration ==
    /\ dpc = "probing"
    /\ \E ok \in BOOLEAN :
          IF ~ok
          THEN /\ dpc' = "rejected"
               /\ dOut' = [dOut EXCEPT !.probes = Append(@, NextProbe),
                                       !.error = <<"ffprobe", NextProbe>>]
          ELSE IF NextProbe = "intro"
          THEN /\ dpc' = "probing"
               /\ dOut' = [dOut EXCEPT !.probes = Append(@, "intro"),
                                       !.introDuration = getVideoDuration(dIn.intro[1])]
          ELSE /\ dpc' = "encoding"
               /\ dOut' = [dOut EXCEPT !.probes = Append(@, "original"),
                                       !.originalDuration = getVideoDuration(dIn.original)]
    /\ UNCHANGED dIn
    /\ UNCHANGED notDur

\* concatVideosWithFilter: it fails and the call rejects with its error, or it
\* ends, the metadata is saved and the result returned.
ConcatAndReport ==
    /\ dpc = "encoding"
    /\ \E ok \in BOOLEAN :
          IF ~ok
          THEN /\ dpc' = "rejected"
               /\ dOut' = [dOut EXCEPT !.error = <<"ffmpeg", "concat">>]
          ELSE /\ dpc' = "returned"
               /\ dOut' = [dOut EXCEPT !.encoded = TRUE,
                                       !.metadata = Metadata(dIn, dOut),
                                       !.result = AssembleResultOf(dIn, dOut)]
    /\ UNCHANGED dIn
    /\ UNCHANGED notDur

\* The step goes on to the next approved folder.
NextAssembly ==
    /\ dpc \in {"rejected", "returned"}
    /\ dpc' = "idle"
    /\ dIn' = NoApproval
    /\ dOut' = NothingReported
    /\ UNCHANGED notDur

DurNext == AssembleDurationsBegin \/ ProbeDuration \/ ConcatAndReport \/ NextAssembly

DurStart == DurInit /\ SrtInit /\ TimeInit /\ WriteInit /\ AnalyzeInit /\ SelInit /\ RetryInit /\ AllInit /\ MediaInit /\ StepsInit

SpecDur == DurStart /\ [][DurNext]_vars

\* ---- claims about the durations

\* The number of milliseconds a reported duration ("12.3s") stands for.
ReportedMs(text) == parseFloat(WithoutS(text)).ms

\* C32 (as stated): in every AssembleResult the reported total equals the sum
\* of the reported highlights subtotal, the reported intro duration if there
\* is an intro, and the reported original duration.
C32_ReportedTotalIsSum ==
    dpc = "returned" =>
        ReportedMs(dOut.result.totalDuration)
            = ReportedMs(dOut.result.highlightsDuration)
                + (IF dOut.result.introDuration = Absent THEN 0
                   ELSE ReportedMs(dOut.result.introDuration))
                + ReportedMs(dOut.result.originalDuration)

\* The text, with one decimal, of the number of tenths nearest to a number of
\* milliseconds that is not negative (the larger of two as near).
NearestTenth(ms) ==
    LET n == CHOOSE k \in 0..(ms \div 100 + 1) :
                 /\ 100 * k - ms <= 50
                 /\ ms - 100 * k < 50
    IN  Digits(n \div 10) \o <<".">> \o Digits(n % 10)

\* C32 (amended): the reported total is the sum of the highlights subtotal,
\* the intro duration if there is an intro, and the original duration, each
\* as computed and not as reported, shown with one decimal; it is within 0.1 s
\* of the sum of the reported components.
C32_TotalIsFormattedSum ==
    dpc = "returned" =>
        LET sum == dOut.highlightsDuration.ms
                     + (IF dIn.intro # <<>> THEN dOut.introDuration.ms ELSE 0)
                     + dOut.originalDuration.ms
            shown == ReportedMs(dOut.result.highlightsDuration)
                       + (IF dOut.result.introDuration = Absent THEN 0
                          ELSE ReportedMs(dOut.result.introDuration))
                       + ReportedMs(dOut.result.originalDuration)
            total == ReportedMs(dOut.result.totalDuration)
        IN  /\ dOut.result.totalDuration = NearestTenth(sum) \o <<"s">>
            /\ total - shown <= 100
            /\ shown - total <= 100

\* C32 witness: 0.3 s of highlights, an intro and an original of 1.04 s each:
\* reported as 0.3s, 1.0s and 1.0s, with the total 2.4s.
C32_Witness ==
    /\ dpc = "returned"
    /\ dOut.result.highlightsDuration = <<"0", ".", "3", "s">>
    /\ dOut.result.introDuration = <<"1", ".", "0", "s">>
    /\ dOut.result.originalDuration = <<"1", ".", "0", "s">>
    /\ dOut.result.totalDuration = <<"2", ".", "4", "s">>

RECURSIVE SumOfFiles(_)
SumOfFiles(clips) ==
    IF clips = <<>> THEN 0 ELSE clips[1].file + SumOfFiles(Tail(clips))

\* C33 (as stated): every component is the probed duration of its file: the
\* highlights subtotal is the sum of the probed durations of the clip files,
\* the intro and original durations are those of their files.
C33_ComponentsAreProbed ==
    dpc = "returned" =>
        /\ dOut.highlightsDuration = Seconds(SumOfFiles(dIn.clips))
        /\ dOut.originalDuration = Seconds(dIn.original)
        /\ dIn.intro # <<>> => dOut.introDuration = Seconds(dIn.intro[1])

\* C39: the metadata file is written only after the concat ended well: a
\* failed probe or encode rejects with that error and writes nothing; on
\* success metadata and result agree on the highlights subtotal, the original
\* duration and the total, and both or neither carry the intro duration, which
\* is there exactly when an intro was given.
C39_MetadataAfterEncode ==
    /\ dOut.metadata # Absent => (dOut.encoded /\ dpc = "returned")
    /\ dpc = "rejected" =>
          /\ dOut.metadata = Absent
          /\ dOut.result = Absent
          /\ dOut.error \in {<<"ffprobe", "intro">>, <<"ffprobe", "original">>,
                             <<"ffmpeg", "concat">>}
    /\ dpc = "returned" =>
          /\ dOut.error = <<>>
          /\ dOut.metadata.highlights = dOut.result.highlightsDuration
          /\ dOut.metadata.original = dOut.result.originalDuration
          /\ dOut.metadata.totalDuration = dOut.result.totalDuration
          /\ dOut.metadata.intro = dOut.result.introDuration
          /\ (dOut.result.introDuration # Absent) <=> (dIn.intro # <<>>)

\* C39 witness: an assembly with an intro of 1.04 s returned; metadata and
\* result both report it.
C39_Witness ==
    /\ dpc = "returned"
    /\ dIn.intro = <<1040>>
    /\ dOut.metadata.intro = <<"1", ".", "0", "s">>
    /\ dOut.result.introDuration = <<"1", ".", "0", "s">>
    /\ dOut.metadata.totalDuration = dOut.result.totalDuration

\* C39 witness of a failed encode after both probes.
C39_EncodeFailed ==
    /\ dpc = "rejected"
    /\ dOut.probes = <<"intro", "original">>
    /\ dOut.error = <<"ffmpeg", "concat">>
    /\ dOut.metadata = Absent

(***************************************************************************)
(* Claims about the extraction of the JSON object (SpecRetry).             *)
(***************************************************************************)

\* Brace depth of text[from..to].
RECURSIVE DepthFrom(_, _, _)
DepthFrom(text, from, to) ==
    IF to < from THEN 0
    ELSE DepthFrom(text, from, to - 1)
            + (IF text[to] = "{" THEN 1 ELSE IF text[to] = "}" THEN -1 ELSE 0)

\* The first top-level object of a text by brace matching: from the first "{"
\* to the "}" that closes it; <<>> when there is none.
FirstObject(text) ==
    LET opens == {i \in 1..Len(text) : text[i] = "{"}
    IN  IF opens = {} THEN <<>>
        ELSE LET i      == CHOOSE x \in opens : \A y \in opens : x <= y
                 closes == {j \in i..Len(text) : DepthFrom(text, i, j) = 0}
             IN  IF closes = {} THEN <<>>
                 ELSE SubSeq(text, i, CHOOSE x \in closes : \A y \in closes : x <= y)

\* C34 (as stated): the consumer extracts the first top-level JSON object by
\* brace matching, so a response holding a complete object, whatever text with
\* braces follows it, parses to that object and the call returns it.
C34_FirstObjectByBraceMatching ==
    \A i \in 1..Len(rlog) :
        (rlog[i].kind = "response" /\ jsonParses(FirstObject(rlog[i].text))) =>
            /\ parseJsonResponse(rlog[i].text).ok
            /\ parseJsonResponse(rlog[i].text).value = FirstObject(rlog[i].text)
            /\ i = Len(rlog)
            /\ rpc = "returned"
            /\ genResult = FirstObject(rlog[i].text)

(***************************************************************************)
(* Claims about missing resources and overwriting in the steps (SpecSteps). *)
(***************************************************************************)

\* What an item that was passed over leaves behind: nothing ran, no external
\* call, no write, no question.
PassedOver(l) == ~l.ran /\ ~l.ext /\ ~l.wrote /\ ~l.asked

Consented(l) ==
    /\ l.asked
    /\ trim(l.answer) \in {<<"t">>, <<"T">>, <<"t", "a", "k">>, <<"T", "A", "K">>,
                           <<"T", "a", "k">>}

\* The existing file of the item at the head of the loop is replaced exactly
\* when the operator consented and the selection gave a result; otherwise the
\* directory contents stay as they are.
ReplacedOnlyBySelection ==
    /\ last'.wrote <=> (Consented(last') /\ last'.sel = "selected")
    /\ ~last'.wrote => fs' = fs
    /\ (Consented(last') /\ ~stepOutcome'.raised)
          => last'.sel \in {"throws", "noSegments", "skip", "empty", "selected"}

\* C38: an existing highlights file or approval file is replaced only when the
\* operator consents to the overwrite and then makes a selection that is not
\* empty; after consent followed by skip, by an empty selection or by an error
\* in the selection, nothing is written and the file stays as it was.
C38_OverwriteNeedsSelection ==
    [][ /\ (step = "highlights" /\ fs.highlights[Head(queue)[1]])
              => ReplacedOnlyBySelection
        /\ (step = "approve-highlights"
              /\ fs.folders[Head(queue)[1]][Head(queue)[2]].approved)
              => ReplacedOnlyBySelection
      ]_vars

\* C38 witness: the operator agreed to replace an existing approval and then
\* typed skip; nothing was written.
C38_Witness ==
    /\ last.step = "approve-highlights"
    /\ Consented(last)
    /\ last.sel = "skip"
    /\ ~last.wrote
    /\ fs.folders[last.item[1]][last.item[2]].approved

\* C38 witness of a replacement of an existing highlights file.
C38_Replaced ==
    /\ last.step = "highlights"
    /\ Consented(last)
    /\ last.sel = "selected"
    /\ last.wrote

(***************************************************************************)
(* Claims about the highlights selected from a caption file (SpecSrt).     *)
(***************************************************************************)

AllAnswered == srtOut.asked /\ srtOut.answer = <<"a", "l", "l">>

\* C36 (as stated): with at least one parsed segment the answer 'all' gives a
\* highlight set holding every segment the parser returned, and the number of
\* highlights is the number of selected identifiers, also when a malformed
\* block was skipped and the ids are not 1..n.
C36_AllSelectsEverySegment ==
    (Parsed /\ srtOut.asked) =>
        /\ AllAnswered => srtOut.highlights = srtOut.segments
        /\ srtOut.wrote => Len(srtOut.highlights) = Len(srtOut.selectedIds)

\* C37 (as stated): within one cut batch no two highlights go to the same
\* output file: the clips of the metadata have pairwise distinct file names,
\* whatever highlight set selectHighlights produced.
C37_DistinctClipFiles ==
    srtpc = "cut" =>
        \A i, j \in 1..Len(srtOut.clips) :
            i # j => srtOut.clips[i] # srtOut.clips[j]

(***************************************************************************)
(* Transcriber.transcribeAudio with generateSRT, and parseSRT on the file  *)
(* it wrote. Seconds are whole milliseconds; the text of a segment holds   *)
(* no line break.                                                          *)
(***************************************************************************)

\* The most segments the speech-to-text service returns here.
MaxSegments == 2

\* ---- what the service returns (the input side)

ServiceTexts == {<<"_", "h", "i">>, <<"a", "_", "b">>, <<"_">>}

ServiceTimes == {[start |-> 0, end |-> 1500], [start |-> 1500, end |-> 3723500]}

ServiceSegments ==
    {[start |-> t.start, end |-> t.end, text |-> x] : t \in ServiceTimes, x \in ServiceTexts}

Transcripts == UNION {[1..n -> ServiceSegments] : n \in 0..MaxSegments}

\* ---- the code side

\* formatTime: HH:MM:SS,mmm
formatTime(ms) ==
    LET hours   == ms \div 3600000
        minutes == (ms % 3600000) \div 60000
        secs    == (ms \div 1000) % 60
        millis  == ms % 1000
    IN  PadStart2(hours) \o <<":">> \o PadStart2(minutes) \o <<":">> \o PadStart2(secs)
            \o <<",">> \o Pad3(millis)

\* transcript.segments.map((segment, index) => ...)
TranscriptionSegments(transcript) ==
    [i \in 1..Len(transcript) |->
        [id        |-> i,
         startTime |-> formatTime(transcript[i].start),
         endTime   |-> formatTime(transcript[i].end),
         text      |-> trim(transcript[i].text)]]

\* `${segment.id}\n${segment.startTime} --> ${segment.endTime}\n${segment.text}\n`
\* seen on its lines: three lines, and the line break that ends the third.
SegmentLines(segment) ==
    << Digits(segment.id),
       segment.startTime \o <<"_", "-", "-", ">", "_">> \o segment.endTime,
       segment.text >>

\* generateSRT: the segments joined with \n, as the lines of the file: after
\* the three lines of a segment comes an empty line.
RECURSIVE generateSRT(_)
generateSRT(segments) ==
    IF segments = <<>> THEN <<<<>>>>
    ELSE IF Len(segments) = 1 THEN SegmentLines(segments[1]) \o <<<<>>>>
    ELSE SegmentLines(segments[1]) \o <<<<>>>> \o generateSRT(Tail(segments))

\* The service answers, the segments are numbered and formatted, and the
\* caption file is written.
TranscribeAudio ==
    /\ wpc = "idle"
    /\ \E transcript \in Transcripts :
          LET segments == TranscriptionSegments(transcript)
          IN  /\ wIn' = transcript
              /\ wOut' = [NothingWritten EXCEPT !.segments = segments,
                                                !.lines = generateSRT(segments),
                                                !.written = TRUE]
    /\ wpc' = "written"
    /\ UNCHANGED notWrite

\* The request fails or the response has no segments: the error is rethrown
\* and nothing is written.
TranscribeAudioFails ==
    /\ wpc = "idle"
    /\ wpc' = "failed"
    /\ UNCHANGED <<wIn, wOut>>
    /\ UNCHANGED notWrite

\* selectHighlights reads the file transcribeAudio wrote and parses it.
ParseWritten ==
    /\ wpc = "written"
    /\ wOut' = [wOut EXCEPT !.parsed = parseSRT(wOut.lines)]
    /\ wpc' = "parsed"
    /\ UNCHANGED wIn
    /\ UNCHANGED notWrite

\* On to the next audio file.
NextAudio ==
    /\ wpc \in {"failed", "parsed"}
    /\ wpc' = "idle"
    /\ wIn' = <<>>
    /\ wOut' = NothingWritten
    /\ UNCHANGED notWrite

WriteNext == TranscribeAudio \/ TranscribeAudioFails \/ ParseWritten \/ NextAudio

WriteStart == WriteInit /\ DurInit /\ SrtInit /\ TimeInit /\ AnalyzeInit /\ SelInit /\ RetryInit /\ AllInit /\ MediaInit /\ StepsInit

SpecWrite == WriteStart /\ [][WriteNext]_vars

\* C40 (as stated): every segment written to the caption file is recovered by
\* the parser: parseSRT(generateSRT(segments)) has the length, the ids, the
\* times (with the comma as a period) and the order of the segment list, also
\* for segments whose trimmed text is empty.
C40_WrittenSegmentsRecovered ==
    wpc = "parsed" =>
        /\ Len(wOut.parsed) = Len(wOut.segments)
        /\ \A i \in 1..Len(wOut.parsed) :
              i <= Len(wOut.segments) =>
                 /\ wOut.parsed[i].id = [nan |-> FALSE, v |-> wOut.segments[i].id]
                 /\ wOut.parsed[i].startTime = ReplaceComma(wOut.segments[i].startTime)
                 /\ wOut.parsed[i].endTime = ReplaceComma(wOut.segments[i].endTime)

====
